---------------------------- MODULE Spec2Model ----------------------------
(***************************************************************************)
(* OG Minds - Dyeing Techniques Explorer.                                  *)
(*                                                                         *)
(* A model of the engine of the repository: autocropImage (border          *)
(* removal), drawImageCover (cover-fit sampler), luminance /               *)
(* dyeTintedColor (tint), maskForTech (the technique masks) and the        *)
(* per-pixel pass of applyDyeingEffect, in the three versions the          *)
(* repository holds (src/unnamed/part_000, src/app/layout.tsx and the      *)
(* older src/app/page.tsx).                                                *)
(*                                                                         *)
(* Numbers.  The code computes in IEEE doubles.  Here                      *)
(*   - autocrop is computed exactly over the rationals (the background     *)
(*     estimate is kept as a sum and a count, distances are compared       *)
(*     squared);                                                           *)
(*   - the cover-fit rectangle is computed exactly over the rationals      *)
(*     (numerator/denominator pairs);                                      *)
(*   - masks and colours are computed in fixed point, in units of 1/ONE,   *)
(*     every product rounded down to the unit.                             *)
(***************************************************************************)
EXTENDS Integers, Sequences, FiniteSets, TLC

VARIABLES
    img,        \* autocrop: the image autocropImage was called with
    tolerance,  \* autocrop: its tolerance argument
    pc,         \* autocrop: position in autocropImage
    step,       \* autocrop: the sampling stride (line 110)
    bg,         \* autocrop: the background estimate, as sums and a count
    top,        \* autocrop: the four boundaries (lines 130-133)
    bottom,
    left,
    right,
    result,     \* autocrop: what the promise settled with
    runs,       \* autocrop: number of calls of autocropImage so far
    cover,      \* drawImageCover: its arguments and the rectangle it samples
    tint,       \* one pixel of a preview: its inputs, tinted and output colour
    mask,       \* maskForTech: its arguments and its result
    pass,       \* the per-pixel pass of applyDyeingEffect over a canvas
    hex,        \* hexToRgb: the string it was called with and what it returned
    page,       \* Page: the uploads in flight, the image and the canvas shown
    softPass,   \* the softness pass: its loop counter, opacity and draws
    noise       \* valueNoise2D: the point it was asked for and its value

cropVars == <<img, tolerance, pc, step, bg, top, bottom, left, right, result, runs>>

vars == <<img, tolerance, pc, step, bg, top, bottom, left, right, result, runs,
          cover, tint, mask, pass, hex, page, softPass, noise>>

-----------------------------------------------------------------------------
(* Small helpers.                                                          *)

Min(a, b) == IF a <= b THEN a ELSE b
Max(a, b) == IF a >= b THEN a ELSE b
Abs(a) == IF a < 0 THEN -a ELSE a

-----------------------------------------------------------------------------
(* Bounds of the model.                                                    *)

\* largest number of pixels of the freely chosen part of an input image
MaxPixels == 4
\* largest thickness of the uniform frame put around the free part
MaxBorder == 1
\* how many times autocropImage is applied in a row (to its own result)
MaxRuns == 2

-----------------------------------------------------------------------------
(* Bitmaps: what getImageData returns, RGBA, row-major (getPixel).         *)

Black == [r |-> 0, g |-> 0, b |-> 0, a |-> 255]
Grey  == [r |-> 10, g |-> 10, b |-> 10, a |-> 255]
White == [r |-> 255, g |-> 255, b |-> 255, a |-> 255]
\* a fully transparent pixel reads back as transparent black
Clear == [r |-> 0, g |-> 0, b |-> 0, a |-> 0]

Palette == {Black, Grey, White, Clear}

\* the tolerance slider: its least value and its default (part_000:506, 640)
Tolerances == {5, 18}

\* getPixel(data, w, x, y)
getPixel(image, x, y) == image.px[y * image.w + x]

\* an image made of a free part of iw x ih pixels with a uniform frame of
\* thickness k and colour c around it
Framed(k, c, iw, ih, f) ==
    LET w == iw + 2 * k
        h == ih + 2 * k
    IN  [w |-> w, h |-> h,
         px |-> [i \in 0..(w * h - 1) |->
                    LET x == i % w
                        y == i \div w
                    IN  IF x >= k /\ x < k + iw /\ y >= k /\ y < k + ih
                        THEN f[(y - k) * iw + (x - k)]
                        ELSE c]]

FreeSizes == {s \in (1..MaxPixels) \X (1..MaxPixels) : s[1] * s[2] <= MaxPixels}

\* zero-sized images: an image element whose natural size is 0
EmptyImages == {[w |-> s[1], h |-> s[2], px |-> [i \in {} |-> Clear]] :
                   s \in {<<0, 0>>, <<0, 1>>, <<1, 0>>}}

\* the images autocropImage is called with: the zero-sized ones, and those
\* whose free part has one of the given sizes, alone or inside a frame
InputImages(sizes) ==
    EmptyImages
    \cup UNION {{Framed(0, Black, s[1], s[2], f) :
                    f \in [0..(s[1] * s[2] - 1) -> Palette]} : s \in sizes}
    \cup UNION {UNION {{Framed(k, c, s[1], s[2], f) :
                          f \in [0..(s[1] * s[2] - 1) -> Palette]} :
                       s \in sizes} : <<k, c>> \in (1..MaxBorder) \X Palette}

-----------------------------------------------------------------------------
(* autocropImage (part_000:93-178).                                        *)

\* the sampled coordinates of a loop "for (let x = 0; x < n; x += step)"
Sampled(n, st) == {x \in 0..(n - 1) : x % st = 0}

\* line 110: Math.max(1, Math.floor(Math.min(w, h) / 60))
SampleStep(w, h) == Max(1, Min(w, h) \div 60)

\* lines 112-119: the samples, as the sequence of their coordinates
RECURSIVE SetToSeq(_)
SetToSeq(S) ==
    IF S = {} THEN <<>>
    ELSE LET m == CHOOSE m \in S : \A n \in S : m <= n
         IN  <<m>> \o SetToSeq(S \ {m})

RECURSIVE FlatMap2(_, _, _)
FlatMap2(s, a, b) ==
    IF s = <<>> THEN <<>>
    ELSE <<a[Head(s)], b[Head(s)]>> \o FlatMap2(Tail(s), a, b)

EdgeSamples(image, st) ==
    LET xs == SetToSeq(Sampled(image.w, st))
        ys == SetToSeq(Sampled(image.h, st))
    IN  FlatMap2(xs, [x \in 0..(image.w - 1) |-> getPixel(image, x, 0)],
                     [x \in 0..(image.w - 1) |-> getPixel(image, x, image.h - 1)])
        \o
        FlatMap2(ys, [y \in 0..(image.h - 1) |-> getPixel(image, 0, y)],
                     [y \in 0..(image.h - 1) |-> getPixel(image, image.w - 1, y)])

\* lines 122-128: the average of the samples, kept as the three sums and the
\* number of samples (bg.r = r / n, and so on)
RECURSIVE SumSamples(_)
SumSamples(s) ==
    IF s = <<>> THEN [r |-> 0, g |-> 0, b |-> 0, n |-> 0]
    ELSE LET acc == SumSamples(Tail(s))
             p == Head(s)
         IN  [r |-> acc.r + p.r, g |-> acc.g + p.g, b |-> acc.b + p.b, n |-> acc.n + 1]

\* colorDist(p, bg) > tolerance (lines 81-86 and 138), both sides squared
\* and multiplied by n * n
colorDistExceeds(p, est, tol) ==
    LET dr == p.r * est.n - est.r
        dg == p.g * est.n - est.g
        db == p.b * est.n - est.b
    IN  dr * dr + dg * dg + db * db > tol * tol * est.n * est.n

\* a test that does not look at the alpha of the pixel
NotBgPixelAnyAlpha(p, est, tol) == colorDistExceeds(p, est, tol)

\* a sampled pixel that makes rowIsBg / colIsBg return false (lines 138, 146)
NotBgPixel(p, est, tol) == p.a > 10 /\ colorDistExceeds(p, est, tol)

\* a row that is background as soon as one of its samples is
rowIsBgAny(image, st, est, tol, y) ==
    \E x \in Sampled(image.w, st) : ~NotBgPixel(getPixel(image, x, y), est, tol)

\* lines 135-141
rowIsBg(image, st, est, tol, y) ==
    \A x \in Sampled(image.w, st) : ~NotBgPixel(getPixel(image, x, y), est, tol)

\* a column judged by its topmost pixel alone
colIsBgTopOnly(image, st, est, tol, x) ==
    ~NotBgPixel(getPixel(image, x, 0), est, tol)

\* lines 143-149
colIsBg(image, st, est, tol, x) ==
    \A y \in Sampled(image.h, st) : ~NotBgPixel(getPixel(image, x, y), est, tol)

\* line 168: octx.drawImage(c, left, top, cw, ch, 0, 0, cw, ch), then the PNG
\* round trip of lines 170-175
CropOf(image, l, t, cw, ch) ==
    [w |-> cw, h |-> ch,
     px |-> [i \in 0..(cw * ch - 1) |-> getPixel(image, l + (i % cw), t + (i \div cw))]]

\* line 160: cw < w * 0.25 || ch < h * 0.25
\* a guard that needs both dimensions to be below the quarter
TooAggressiveBoth(cw, ch, w, h) == 4 * cw < w /\ 4 * ch < h

TooAggressive(cw, ch, w, h) == 4 * cw < w \/ 4 * ch < h

NoEstimate == [r |-> 0, g |-> 0, b |-> 0, n |-> 0]
NoResult == [kind |-> "none"]

\* the values of the variables of the parts that are not running
Idle == [at |-> "idle"]
NoImage == [w |-> 0, h |-> 0, px |-> <<>>]

CropIdle ==
    /\ img = NoImage /\ tolerance = 0 /\ pc = "idle" /\ step = 0 /\ bg = NoEstimate
    /\ top = 0 /\ bottom = 0 /\ left = 0 /\ right = 0
    /\ result = NoResult /\ runs = 0

\* lines 94-106: the canvas is sized to the image and read back;
\* getImageData(0, 0, w, h) throws IndexSizeError when w or h is 0, which
\* rejects the promise (getContext("2d") of a fresh canvas is never null, so
\* the early return of line 102 is not taken)
Start ==
    /\ pc = "start"
    /\ \/ /\ img.w = 0 \/ img.h = 0
          /\ pc' = "rejected"
          /\ result' = [kind |-> "error"]
       \/ /\ img.w > 0 /\ img.h > 0
          /\ pc' = "sample"
          /\ UNCHANGED result
    /\ UNCHANGED <<img, tolerance, step, bg, top, bottom, left, right, runs>>
    /\ UNCHANGED <<cover, tint, mask, pass, hex, page, softPass, noise>>

\* lines 108-133
SampleEdges ==
    /\ pc = "sample"
    /\ step' = SampleStep(img.w, img.h)
    /\ bg' = SumSamples(EdgeSamples(img, SampleStep(img.w, img.h)))
    /\ top' = 0
    /\ bottom' = img.h - 1
    /\ left' = 0
    /\ right' = img.w - 1
    /\ pc' = "top"
    /\ UNCHANGED <<img, tolerance, result, runs>>
    /\ UNCHANGED <<cover, tint, mask, pass, hex, page, softPass, noise>>

\* a top loop that tests the row alone, not the opposite boundary
ErodeTopPastBottom ==
    /\ pc = "top"
    /\ IF top < img.h /\ rowIsBg(img, step, bg, tolerance, top)
       THEN top' = top + 1 /\ pc' = pc
       ELSE top' = top /\ pc' = "bottom"
    /\ UNCHANGED <<img, tolerance, step, bg, bottom, left, right, result, runs>>
    /\ UNCHANGED <<cover, tint, mask, pass, hex, page, softPass, noise>>

\* line 151: while (top < bottom && rowIsBg(top)) top++
ErodeTop ==
    /\ pc = "top"
    /\ IF top < bottom /\ rowIsBg(img, step, bg, tolerance, top)
       THEN top' = top + 1 /\ pc' = pc
       ELSE top' = top /\ pc' = "bottom"
    /\ UNCHANGED <<img, tolerance, step, bg, bottom, left, right, result, runs>>
    /\ UNCHANGED <<cover, tint, mask, pass, hex, page, softPass, noise>>

\* line 152: while (bottom > top && rowIsBg(bottom)) bottom--
ErodeBottom ==
    /\ pc = "bottom"
    /\ IF bottom > top /\ rowIsBg(img, step, bg, tolerance, bottom)
       THEN bottom' = bottom - 1 /\ pc' = pc
       ELSE bottom' = bottom /\ pc' = "left"
    /\ UNCHANGED <<img, tolerance, step, bg, top, left, right, result, runs>>
    /\ UNCHANGED <<cover, tint, mask, pass, hex, page, softPass, noise>>

\* line 153: while (left < right && colIsBg(left)) left++
ErodeLeft ==
    /\ pc = "left"
    /\ IF left < right /\ colIsBg(img, step, bg, tolerance, left)
       THEN left' = left + 1 /\ pc' = pc
       ELSE left' = left /\ pc' = "right"
    /\ UNCHANGED <<img, tolerance, step, bg, top, bottom, right, result, runs>>
    /\ UNCHANGED <<cover, tint, mask, pass, hex, page, softPass, noise>>

\* line 154: while (right > left && colIsBg(right)) right--
ErodeRight ==
    /\ pc = "right"
    /\ IF right > left /\ colIsBg(img, step, bg, tolerance, right)
       THEN right' = right - 1 /\ pc' = pc
       ELSE right' = right /\ pc' = "guard"
    /\ UNCHANGED <<img, tolerance, step, bg, top, bottom, left, result, runs>>
    /\ UNCHANGED <<cover, tint, mask, pass, hex, page, softPass, noise>>

\* lines 156-177: the size guard, then the crop
GuardAndCrop ==
    /\ pc = "guard"
    /\ LET cw == Max(1, right - left + 1)
           ch == Max(1, bottom - top + 1)
       IN  result' = IF TooAggressive(cw, ch, img.w, img.h)
                     THEN [kind |-> "original", img |-> img]
                     ELSE [kind |-> "cropped", img |-> CropOf(img, left, top, cw, ch)]
    /\ pc' = "done"
    /\ UNCHANGED <<img, tolerance, step, bg, top, bottom, left, right, runs>>
    /\ UNCHANGED <<cover, tint, mask, pass, hex, page, softPass, noise>>

\* the caller hands the image it got back to autocropImage again, with the
\* same tolerance
Reapply ==
    /\ pc = "done"
    /\ runs < MaxRuns
    /\ img' = result.img
    /\ runs' = runs + 1
    /\ pc' = "start"
    /\ step' = 0
    /\ bg' = NoEstimate
    /\ top' = 0 /\ bottom' = 0 /\ left' = 0 /\ right' = 0
    /\ result' = NoResult
    /\ UNCHANGED <<tolerance, cover, tint, mask, pass, hex, page, softPass, noise>>

InitCrop ==
    /\ img \in InputImages(FreeSizes)
    /\ tolerance \in Tolerances
    /\ pc = "start"
    /\ step = 0
    /\ bg = NoEstimate
    /\ top = 0 /\ bottom = 0 /\ left = 0 /\ right = 0
    /\ result = NoResult
    /\ runs = 1
    /\ cover = Idle /\ tint = Idle /\ mask = Idle /\ pass = Idle /\ hex = Idle /\ page = Idle /\ softPass = Idle /\ noise = Idle

NextCrop ==
    \/ Start
    \/ SampleEdges
    \/ ErodeTop
    \/ ErodeBottom
    \/ ErodeLeft
    \/ ErodeRight
    \/ GuardAndCrop
    \/ Reapply

SpecCrop == InitCrop /\ [][NextCrop]_vars

-----------------------------------------------------------------------------
(* Fixed point: a number v of the code is the integer v * ONE, rounded     *)
(* down.                                                                   *)

ONE == 10 * 10 * 10

\* a * b and a / b of two fixed-point numbers
Mul(a, b) == (a * b) \div ONE
Div(a, b) == (a * ONE) \div b

\* Math.floor, and the fractional part x - Math.floor(x)
Floor(x) == x \div ONE
Frac(x) == x - Floor(x) * ONE

\* a clamp from below only
clampBelow(x) == Max(0, x)

\* clamp01 (part_000:71-73) and clamp255 (part_000:74-76)
clamp01(x) == Max(0, Min(ONE, x))
clamp255(x) == Max(0, Min(255 * ONE, x))

\* Math.sqrt of a fixed-point number: the largest r with r * r <= x * ONE
RECURSIVE SqrtBits(_, _, _)
SqrtBits(n, r, bit) ==
    IF bit = 0 THEN r
    ELSE IF (r + bit) * (r + bit) <= n
         THEN SqrtBits(n, r + bit, bit \div 2)
         ELSE SqrtBits(n, r, bit \div 2)

\* the integer square root of n < 2^30
ISqrt(n) == SqrtBits(n, 0, 16384)

\* Math.sqrt(dx * dx + dy * dy) for fixed-point dx, dy
Hypot(dx, dy) == ISqrt(dx * dx + dy * dy)

\* Math.sin(2 * pi * t) for a fixed-point t, by Bhaskara's approximation
\* sin(pi * x) ~ 16 x (1 - x) / (5 - 4 x (1 - x)) on 0 <= x <= 1 (its error
\* is below 0.002)
SinHalf(x) ==
    LET p == Mul(x, ONE - x)
    IN  Div(16 * p, 5 * ONE - 4 * p)

SinTurns(t) ==
    LET u == t % ONE
    IN  IF 2 * u < ONE THEN SinHalf(2 * u) ELSE -SinHalf(2 * u - ONE)

CosTurns(t) == SinTurns(t + ONE \div 4)

\* 1 / (2 * pi) in fixed point, to turn an angle in radians into turns
InvTwoPi == (159155 * ONE) \div 1000000

\* Math.sin(t) and Math.atan2(dy, dx), angles in radians
Sin(t) == SinTurns(Mul(t, InvTwoPi))

\* atan(z) for 0 <= z <= 1: z * (pi/4 + 0.273 * (1 - z)) (error below 0.004)
AtanUnit(z) == Mul(z, (785398 * ONE) \div 1000000 + Mul((273 * ONE) \div 1000, ONE - z))

PiFix == (314159 * ONE) \div 100000

Atan2(dy, dx) ==
    LET ax == Abs(dx)
        ay == Abs(dy)
        a == IF ax = 0 /\ ay = 0 THEN 0
             ELSE IF ay <= ax THEN AtanUnit(Div(ay, ax))
             ELSE PiFix \div 2 - AtanUnit(Div(ax, ay))
        q == IF dx >= 0 THEN a ELSE PiFix - a
    IN  IF dy >= 0 THEN q ELSE -q

-----------------------------------------------------------------------------
(* 32-bit words, as pairs <<high 16 bits, low 16 bits>>: TLC's integers    *)
(* are 32-bit signed and cannot hold an unsigned 32-bit value.             *)

W16 == 2 ^ 16

RECURSIVE Xor16(_, _)
Xor16(a, b) ==
    IF a = 0 THEN b
    ELSE IF b = 0 THEN a
    ELSE 2 * Xor16(a \div 2, b \div 2) + ((a + b) % 2)

\* a ^ b
Xor32(a, b) == <<Xor16(a[1], b[1]), Xor16(a[2], b[2])>>

\* a >>> k for 0 < k < 16, and a >>> 16
Shr32(a, k) ==
    LET p == 2 ^ k
    IN  <<a[1] \div p, (a[1] % p) * (W16 \div p) + a[2] \div p>>
Shr16(a) == <<0, a[1]>>

\* a << k for 0 < k < 16 (the bits shifted out are dropped)
Shl32(a, k) ==
    LET p == 2 ^ k
        q == W16 \div p
    IN  <<(a[1] % q) * p + a[2] \div q, (a[2] % q) * p>>

\* a + b and -a, modulo 2^32
Add32(a, b) ==
    LET lo == a[2] + b[2]
    IN  <<(a[1] + b[1] + lo \div W16) % W16, lo % W16>>
Neg32(a) == Add32(<<W16 - 1 - a[1], W16 - 1 - a[2]>>, <<0, 1>>)

\* the product of two 16-bit numbers, as a 32-bit word
Mul16(a, b) ==
    LET t1 == (a \div 256) * b
        t0 == (a % 256) * b
        lo == (t1 % 256) * 256 + t0
    IN  <<t1 \div 256 + lo \div W16, lo % W16>>

\* the 64-bit product of two 32-bit words, as four 16-bit limbs, lowest first
Carried(l0, s1, s2, s3) ==
    <<l0, s1 % W16, (s2 + s1 \div W16) % W16, s3 + (s2 + s1 \div W16) \div W16>>
Limbs(ll, lh, hl, hh) == Carried(ll[2], ll[1] + lh[2] + hl[2], lh[1] + hl[1] + hh[2], hh[1])
Mul32Wide(a, b) ==
    Limbs(Mul16(a[2], b[2]), Mul16(a[2], b[1]), Mul16(a[1], b[2]), Mul16(a[1], b[1]))

\* a * b modulo 2^32
LowWord(m) == <<m[2], m[1]>>
Mul32(a, b) == LowWord(Mul32Wide(a, b))

\* ToUint32 of an integer of TLC's range (two's complement for a negative one)
Word(n) == IF n >= 0 THEN <<n \div W16, n % W16>> ELSE Neg32(<<(-n) \div W16, (-n) % W16>>)

\* the number of bits of n >= 0
RECURSIVE BitLen(_)
BitLen(n) == IF n = 0 THEN 0 ELSE 1 + BitLen(n \div 2)

\* ToUint32 of the double nearest to s * m, for a sign s, and a magnitude m
\* given as four 16-bit limbs, lowest first: a double keeps 53 significant
\* bits, the rest is rounded to nearest, ties to even
Length(m) ==
    IF m[4] > 0 THEN 48 + BitLen(m[4])
    ELSE IF m[3] > 0 THEN 32 + BitLen(m[3])
    ELSE IF m[2] > 0 THEN 16 + BitLen(m[2])
    ELSE BitLen(m[1])
Signed(negative, low) == IF negative THEN Neg32(low) ELSE low
\* the low word of m rounded at the bit of weight p (p = 1: nothing to round)
RoundedAt(m, p) ==
    LET q == m[1] % p
        odd == (m[1] \div p) % 2 = 1
        up == p > 1 /\ (2 * q > p \/ (2 * q = p /\ odd))
    IN  Add32(<<m[2], m[1] - q>>, IF up THEN <<0, p>> ELSE <<0, 0>>)
RoundedWord(negative, m) == Signed(negative, RoundedAt(m, 2 ^ Max(0, Length(m) - 53)))

\* a word as a fraction of 2^32, in fixed point: (u >>> 0) / 4294967296
UnitOf(u) == (u[1] * ONE + (u[2] * ONE) \div W16) \div W16

-----------------------------------------------------------------------------
(* valueNoise2D (part_000:209-232, layout.tsx:101-125).                    *)

\* lines 215-219: the lattice hash; ix, iy are integers, seed is a 32-bit
\* word.  Line 216 is exact in doubles (its value stays below 2^53), the
\* product of line 217 is rounded to a double.
\* h ^ (h >>> 13) and h ^ (h >>> 16)
XorShr13(h) == Xor32(h, Shr32(h, 13))
XorShr16(h) == Xor32(h, Shr16(h))
\* ToUint32 of the double a * c for an int32 a (a word read as signed) and a
\* positive c
TimesRounded(a, c) ==
    IF a[1] >= W16 \div 2 THEN RoundedWord(TRUE, Mul32Wide(Neg32(a), c))
    ELSE RoundedWord(FALSE, Mul32Wide(a, c))

hash(ix, iy, seed) ==
    UnitOf(XorShr16(TimesRounded(
        XorShr13(Add32(Add32(Mul32(Word(ix), Word(374761393)),
                             Mul32(Word(iy), Word(668265263))),
                       Mul32(seed, Word(69069)))),
        Word(1274126177))))

\* lines 226-231: smoothstep weights and the bilinear blend of four corners
Smooth(t) == Mul(Mul(t, t), 3 * ONE - 2 * t)

Lerp(a, b, t) == Mul(a, ONE - t) + Mul(b, t)
\* c[<<i, j>>] is the hash of the corner (xi + i, yi + j)
Blend4(c, u, v) ==
    Lerp(Lerp(c[<<0, 0>>], c[<<1, 0>>], u), Lerp(c[<<0, 1>>], c[<<1, 1>>], u), v)

\* x, y in fixed point, seed a 32-bit word
valueNoise2D(x, y, seed) ==
    Blend4([c \in {0, 1} \X {0, 1} |-> hash(Floor(x) + c[1], Floor(y) + c[2], seed)],
           Smooth(Frac(x)), Smooth(Frac(y)))

-----------------------------------------------------------------------------
(* maskForTech (part_000:234-378).                                         *)

\* the decimal n / d in fixed point
Q(n, d) == (n * ONE) \div d

\* part_000:30-49, the keys and the labels in the order of the source (the
\* dash of the labels is written "-")
TECHS ==
    << [key |-> "ombre", label |-> "Ombre (Gradient Dye)"],
       [key |-> "dipDye", label |-> "Dip Dye (Hard Edge)"],
       [key |-> "tieDyeSpiral", label |-> "Tie & Dye - Spiral"],
       [key |-> "bandhaniDots", label |-> "Bandhani - Dots"],
       [key |-> "leheriya", label |-> "Leheriya (Diagonal Waves)"],
       [key |-> "shiboriItajime", label |-> "Shibori - Itajime (Fold Resist)"],
       [key |-> "shiboriArashi", label |-> "Shibori - Arashi (Pole Wrap)"],
       [key |-> "shiboriKumo", label |-> "Shibori - Kumo (Spider)"],
       [key |-> "shiboriNui", label |-> "Shibori - Nui (Stitched Resist)"],
       [key |-> "shiboriKanoko", label |-> "Shibori - Kanoko (Spots)"],
       [key |-> "batikCrackle", label |-> "Batik - Crackle Wax"],
       [key |-> "batikFloral", label |-> "Batik - Floral Wax Motif"],
       [key |-> "ikatWarp", label |-> "Ikat - Warp Blur"],
       [key |-> "ikatWeft", label |-> "Ikat - Weft Blur"],
       [key |-> "spaceDye", label |-> "Space Dye (Yarn Color Runs)"] >>

\* the keys TECHS.map hands to PreviewCanvas (part_000:664-669)
Tech == {TECHS[i].key : i \in 1..Len(TECHS)}

\* a chain of tests that lost its last branch
BranchesButLast ==
    <<"ombre", "dipDye", "tieDyeSpiral", "bandhaniDots", "leheriya",
      "shiboriItajime", "shiboriArashi", "shiboriKumo", "shiboriNui",
      "shiboriKanoko", "batikCrackle", "batikFloral", "ikatWarp", "ikatWeft">>

\* the tags the chain of maskForTech tests, in its order (part_000:242, 246,
\* 253, 266, 289, 297, 307, 316, 327, 333, 340, 349, 356, 363, 370)
Branches ==
    <<"ombre", "dipDye", "tieDyeSpiral", "bandhaniDots", "leheriya",
      "shiboriItajime", "shiboriArashi", "shiboriKumo", "shiboriNui",
      "shiboriKanoko", "batikCrackle", "batikFloral", "ikatWarp", "ikatWeft",
      "spaceDye">>

\* the test of the chain that returns for a tag: its position, or 0 when
\* the call reaches the return of line 377
BranchTaken(tech) ==
    IF \E i \in 1..Len(Branches) : Branches[i] = tech
    THEN CHOOSE i \in 1..Len(Branches) :
            Branches[i] = tech /\ \A j \in 1..(i - 1) : Branches[j] # tech
    ELSE 0

\* Math.sqrt(dx * dx + dy * dy) for distances in pixels, kept within TLC's
\* 32-bit integers
HypotPx(dx, dy) ==
    LET k == 1 + Max(Abs(dx), Abs(dy)) \div (20 * ONE)
    IN  k * Hypot(dx \div k, dy \div k)

\* lines 235-236
NormX(x, w) == Div(x * ONE, Max(1, w) * ONE)
NormY(y, h) == Div(y * ONE, Max(1, h) * ONE)

\* lines 238-240
Fiber(x, y, w, h, scale, seed) ==
    valueNoise2D(Mul(NormX(x, w) * 60, scale), Mul(NormY(y, h) * 60, scale), Word(seed + 11))
Fiber2(x, y, w, h, scale, seed) ==
    valueNoise2D(Mul(NormX(x, w) * 140, scale), Mul(NormY(y, h) * 140, scale), Word(seed + 29))
FabricGrain(fiber, fiber2) ==
    Q(85, 100) + Mul(Q(15, 100), Mul(Q(6, 10), fiber) + Mul(Q(4, 10), fiber2))

\* lines 242-244
ombre(ny, fabricGrain) == clamp01(Mul(ny, fabricGrain))

\* lines 246-251
dipDye(ny, fiber, fabricGrain) ==
    LET edge == Q(55, 100) + Mul(Q(6, 100), fiber - Q(5, 10))
        v == IF ny > edge THEN ONE ELSE 0
        bleed == clamp01((ny - edge) * 10)
    IN  clamp01(Mul(Mul(Q(2, 10), v) + Mul(Q(8, 10), bleed), fabricGrain))

\* lines 253-264
tieDyeSpiral(nx, ny, scale, fabricGrain) ==
    LET dx == nx - Q(5, 10)
        dy == ny - Q(5, 10)
        r == Hypot(dx, dy)
        a == Atan2(dy, dx)
        t == a * 3 + Mul(r * 18, scale)
        ring == (Sin(t) + ONE) \div 2
        resist == IF ring > Q(72, 100) THEN Q(15, 100) ELSE ONE
    IN  clamp01(Mul(resist, fabricGrain))

\* lines 267-276: the cell size, the cell of a pixel, the seed of a cell and
\* the jittered dot centre of a cell
bandhaniCell(scale) == Max(18 * ONE, Mul(70 * ONE, Div(ONE, Max(Q(25, 100), scale))))

bandhaniSeed(gx, gy, seed) ==
    Xor32(Xor32(Mul32(Word(gx), Word(73856093)), Mul32(Word(gy), Word(19349663))),
          Word(seed + 7))

bandhaniCentre(gx, gy, cell, seed) ==
    LET s == bandhaniSeed(gx, gy, seed)
        r1 == valueNoise2D(gx * Q(1, 10), gy * Q(1, 10), Add32(s, Word(1)))
        r2 == valueNoise2D(gx * Q(1, 10), gy * Q(1, 10), Add32(s, Word(2)))
    IN  [cx |-> Mul(gx * ONE + Q(5, 10), cell) + Mul(Mul(r1 - Q(5, 10), cell), Q(35, 100)),
         cy |-> Mul(gy * ONE + Q(5, 10), cell) + Mul(Mul(r2 - Q(5, 10), cell), Q(35, 100))]

\* lines 266-287
bandhaniDots(x, y, scale, seed, fabricGrain) ==
    LET cell == bandhaniCell(scale)
        gx == Floor(Div(x * ONE, cell))
        gy == Floor(Div(y * ONE, cell))
        c == bandhaniCentre(gx, gy, cell, seed)
        d == HypotPx(x * ONE - c.cx, y * ONE - c.cy)
        r0 == Mul(cell, Q(11, 100))
        halo == Mul(cell, Q(19, 100))
    IN  IF d < r0 THEN Q(6, 100)
        ELSE IF d < halo THEN Q(35, 100)
        ELSE clamp01(Mul(ONE, fabricGrain))

\* lines 289-295
leheriya(nx, ny, scale, fabricGrain) ==
    LET freq == 14 * scale
        wave == (SinTurns(Mul(nx + ny, freq)) + ONE) \div 2
        band == IF wave > Q(55, 100) THEN ONE ELSE Q(25, 100)
    IN  clamp01(Mul(band, fabricGrain))

\* lines 297-305
shiboriItajime(x, y, scale, fabricGrain) ==
    LET cell == Max(26 * ONE, Mul(120 * ONE, Div(ONE, Max(Q(25, 100), scale))))
        u == Div((x * ONE) % cell, cell)
        v == Div((y * ONE) % cell, cell)
        d == Min(Min(u, v), Min(ONE - u, ONE - v))
        core == IF d > Q(22, 100) THEN Q(18, 100) ELSE ONE
        edgeBleed == clamp01(ONE - Abs(d - Q(22, 100)) * 10)
    IN  clamp01(Mul(core + Mul(Q(15, 100), edgeBleed), fabricGrain))

\* lines 307-314
shiboriArashi(x, y, scale, fiber, fabricGrain) ==
    LET freq == Mul(Q(5, 100), scale)
        t == x * freq + Mul(y * freq, Q(7, 10))
        stripe == (Sin(t) + ONE) \div 2
        hard == IF stripe > Q(58, 100) THEN ONE ELSE Q(22, 100)
        rough == Q(9, 10) + Mul(Q(1, 10), fiber - Q(5, 10))
    IN  clamp01(Mul(Mul(hard, rough), fabricGrain))

\* lines 316-325
shiboriKumo(nx, ny, scale, fiber, fiber2, fabricGrain) ==
    LET cx == Q(5, 10) + Mul(Q(12, 100), fiber - Q(5, 10))
        cy == Q(5, 10) + Mul(Q(12, 100), fiber2 - Q(5, 10))
        r == Hypot(nx - cx, ny - cy)
        rings == Mul(Sin(Mul(r * 40, scale)), Q(5, 10)) + Q(5, 10)
        resist == IF rings > Q(72, 100) THEN Q(2, 10) ELSE ONE
    IN  clamp01(Mul(resist, fabricGrain))

\* lines 327-331
shiboriNui(ny, scale, fiber, fabricGrain) ==
    LET line == Mul(SinTurns(Mul(ny * 26, scale) + Mul(Q(2, 10), fiber)), Q(5, 10)) + Q(5, 10)
        resist == IF line > Q(62, 100) THEN Q(25, 100) ELSE ONE
    IN  clamp01(Mul(resist, fabricGrain))

\* lines 333-338
shiboriKanoko(nx, ny, scale, seed, fiber, fabricGrain) ==
    LET n == valueNoise2D(Mul(nx * 10, scale), Mul(ny * 10, scale), Word(seed + 99))
        spots == IF n > Q(62, 100) THEN Q(2, 10) ELSE ONE
        bleed == Q(85, 100) + Mul(Q(15, 100), fiber)
    IN  clamp01(Mul(Mul(spots, bleed), fabricGrain))

\* a crackle whose field is the difference of the two samples
batikCrackleOfDifference(nx, ny, scale, seed, fabricGrain) ==
    LET n1 == valueNoise2D(Mul(nx * 16, scale), Mul(ny * 16, scale), Word(seed + 123))
        n2 == valueNoise2D(Mul(nx * 32, scale), Mul(ny * 32, scale), Word(seed + 321))
        n == n1 - n2
        vein == Abs(n - Q(5, 10))
        resist == IF vein < Q(4, 100) THEN Q(15, 100) ELSE ONE
    IN  clamp01(Mul(resist, fabricGrain))

\* lines 340-347
batikCrackle(nx, ny, scale, seed, fabricGrain) ==
    LET n1 == valueNoise2D(Mul(nx * 16, scale), Mul(ny * 16, scale), Word(seed + 123))
        n2 == valueNoise2D(Mul(nx * 32, scale), Mul(ny * 32, scale), Word(seed + 321))
        n == Mul(Q(6, 10), n1) + Mul(Q(4, 10), n2)
        vein == Abs(n - Q(5, 10))
        resist == IF vein < Q(4, 100) THEN Q(15, 100) ELSE ONE
    IN  clamp01(Mul(resist, fabricGrain))

\* lines 349-354
batikFloral(nx, ny, scale, fabricGrain) ==
    LET t == Mul(SinTurns(Mul(nx * 10, scale)), CosTurns(Mul(ny * 8, scale)))
        petal == Abs(t)
        resist == IF petal > Q(72, 100) THEN Q(22, 100) ELSE ONE
    IN  clamp01(Mul(resist, fabricGrain))

\* lines 356-361
ikatWarp(nx, scale, fiber, fabricGrain) ==
    LET band == Mul(SinTurns(Mul(nx * 18, scale)), Q(5, 10)) + Q(5, 10)
        soft == Q(35, 100) + Mul(Q(65, 100), band)
        fray == Q(9, 10) + Mul(Q(1, 10), fiber - Q(5, 10))
    IN  clamp01(Mul(Mul(soft, fray), fabricGrain))

\* lines 363-368
ikatWeft(ny, scale, fiber2, fabricGrain) ==
    LET band == Mul(SinTurns(Mul(ny * 16, scale)), Q(5, 10)) + Q(5, 10)
        soft == Q(35, 100) + Mul(Q(65, 100), band)
        fray == Q(9, 10) + Mul(Q(1, 10), fiber2 - Q(5, 10))
    IN  clamp01(Mul(Mul(soft, fray), fabricGrain))

\* lines 370-375
spaceDye(nx, ny, scale, seed, fabricGrain) ==
    LET t == Mul(nx * 22 + ny * 10, scale)
        run == valueNoise2D(t, Mul(ny * 6, scale), Word(seed + 777))
        streak == clamp01(Q(25, 100) + Mul(Q(9, 10), run))
    IN  clamp01(Mul(streak, fabricGrain))

\* lines 242-377: the branch of the technique, the default being the grain
maskBranch(tech, x, y, nx, ny, scale, seed, fiber, fiber2, fabricGrain) ==
    IF BranchTaken(tech) = 0 THEN fabricGrain
    ELSE
    CASE tech = "ombre" -> ombre(ny, fabricGrain)
      [] tech = "dipDye" -> dipDye(ny, fiber, fabricGrain)
      [] tech = "tieDyeSpiral" -> tieDyeSpiral(nx, ny, scale, fabricGrain)
      [] tech = "bandhaniDots" -> bandhaniDots(x, y, scale, seed, fabricGrain)
      [] tech = "leheriya" -> leheriya(nx, ny, scale, fabricGrain)
      [] tech = "shiboriItajime" -> shiboriItajime(x, y, scale, fabricGrain)
      [] tech = "shiboriArashi" -> shiboriArashi(x, y, scale, fiber, fabricGrain)
      [] tech = "shiboriKumo" -> shiboriKumo(nx, ny, scale, fiber, fiber2, fabricGrain)
      [] tech = "shiboriNui" -> shiboriNui(ny, scale, fiber, fabricGrain)
      [] tech = "shiboriKanoko" -> shiboriKanoko(nx, ny, scale, seed, fiber, fabricGrain)
      [] tech = "batikCrackle" -> batikCrackle(nx, ny, scale, seed, fabricGrain)
      [] tech = "batikFloral" -> batikFloral(nx, ny, scale, fabricGrain)
      [] tech = "ikatWarp" -> ikatWarp(nx, scale, fiber, fabricGrain)
      [] tech = "ikatWeft" -> ikatWeft(ny, scale, fiber2, fabricGrain)
      [] tech = "spaceDye" -> spaceDye(nx, ny, scale, seed, fabricGrain)
      [] OTHER -> fabricGrain

\* line 240, then the branches
maskWithGrain(tech, x, y, nx, ny, scale, seed, fiber, fiber2) ==
    maskBranch(tech, x, y, nx, ny, scale, seed, fiber, fiber2, FabricGrain(fiber, fiber2))

\* lines 234-378: x, y, w, h in pixels, scale in fixed point, seed an integer
maskForTech(tech, x, y, w, h, scale, seed) ==
    maskWithGrain(tech, x, y, NormX(x, w), NormY(y, h), scale, seed,
                  Fiber(x, y, w, h, scale, seed), Fiber2(x, y, w, h, scale, seed))

-----------------------------------------------------------------------------
(* drawImageCover (part_000:183-192), over the rationals: a number is a    *)
(* pair <<numerator, denominator>> with a positive denominator.            *)

RatEq(a, b) == a[1] * b[2] = b[1] * a[2]
RatLeq(a, b) == a[1] * b[2] <= b[1] * a[2]
RatTimes(a, n) == <<a[1] * n, a[2]>>
\* n / a for a positive rational a
IntOver(n, a) == <<n * a[2], a[1]>>
\* (n - a) / 2
HalfRest(n, a) == <<n * a[2] - a[1], 2 * a[2]>>

\* a contain-fit: the smaller of the two ratios, the whole source visible
drawImageContain(iw, ih, w, h) ==
    LET s == IF RatLeq(<<h, ih>>, <<w, iw>>) THEN <<h, ih>> ELSE <<w, iw>>
        sw == IntOver(w, s)
        sh == IntOver(h, s)
    IN  [sx |-> HalfRest(iw, sw), sy |-> HalfRest(ih, sh), sw |-> sw, sh |-> sh]

\* a stretch of the whole source onto the destination
drawImageStretch(iw, ih, w, h) ==
    [sx |-> <<0, 1>>, sy |-> <<0, 1>>, sw |-> <<iw, 1>>, sh |-> <<ih, 1>>]

\* lines 184-190: the source rectangle handed to ctx.drawImage (line 191)
drawImageCover(iw, ih, w, h) ==
    LET s == IF RatLeq(<<h, ih>>, <<w, iw>>) THEN <<w, iw>> ELSE <<h, ih>>
        sw == IntOver(w, s)
        sh == IntOver(h, s)
    IN  [sx |-> HalfRest(iw, sw), sy |-> HalfRest(ih, sh), sw |-> sw, sh |-> sh]

\* image and canvas sizes of the cover-fit model
MaxDim == 4
Dims == 1..MaxDim

\* a canvas of w x h waiting for its render of an iw x ih image
Pending(iw, ih, w, h) ==
    [at |-> "pending", iw |-> iw, ih |-> ih, w |-> w, h |-> h]

\* applyDyeingEffect reaches line 401
CoverDraw ==
    /\ cover.at = "pending"
    /\ cover' = [at |-> "drawn", iw |-> cover.iw, ih |-> cover.ih, w |-> cover.w, h |-> cover.h,
                 rect |-> drawImageCover(cover.iw, cover.ih, cover.w, cover.h)]
    /\ UNCHANGED <<cropVars, tint, mask, pass, hex, page, softPass, noise>>

\* a new image reaches the canvas (setImg, line 539): the effect of
\* PreviewCanvas runs again (lines 459-489)
CoverNewImage ==
    /\ cover.at = "drawn"
    /\ \E iw \in Dims, ih \in Dims : cover' = Pending(iw, ih, cover.w, cover.h)
    /\ UNCHANGED <<cropVars, tint, mask, pass, hex, page, softPass, noise>>

\* the ResizeObserver callback (lines 466-486) renders at the new size
CoverResize ==
    /\ cover.at = "drawn"
    /\ \E w \in Dims, h \in Dims : cover' = Pending(cover.iw, cover.ih, w, h)
    /\ UNCHANGED <<cropVars, tint, mask, pass, hex, page, softPass, noise>>

InitCover ==
    /\ CropIdle
    /\ \E iw \in Dims, ih \in Dims, w \in Dims, h \in Dims : cover = Pending(iw, ih, w, h)
    /\ tint = Idle /\ mask = Idle /\ pass = Idle /\ hex = Idle /\ page = Idle /\ softPass = Idle /\ noise = Idle

NextCover == CoverDraw \/ CoverNewImage \/ CoverResize

SpecCover == InitCover /\ [][NextCover]_vars

-----------------------------------------------------------------------------
(* The tint and the blend of one pixel (part_000:194-206 and 404-422).  A  *)
(* channel of a pixel is a byte; a tinted channel is a fixed-point number. *)

\* line 68 of hexToRgb: the channels of the 24-bit number the digits denote
RgbOfNumber(n) == [r |-> (n \div 65536) % 256, g |-> (n \div 256) % 256, b |-> n % 256]

\* a luminance that is not divided by 255
luminanceOfBytes(r, g, b) == (2126 * r + 7152 * g + 722 * b) \div 10

\* luminance (lines 194-196): (0.2126 r + 0.7152 g + 0.0722 b) / 255
luminance(r, g, b) == (2126 * r + 7152 * g + 722 * b) \div 2550

\* a tint that darkens the light pixels instead of the dark ones
dyeTintedInverse(baseR, baseG, baseB, dyeR, dyeG, dyeB) ==
    LET L == luminance(baseR, baseG, baseB)
        shade == Q(35, 100) + Mul(Q(65, 100), ONE - L)
    IN  [r |-> clamp255(dyeR * shade),
         g |-> clamp255(dyeG * shade),
         b |-> clamp255(dyeB * shade)]

\* dyeTintedColor (lines 198-206)
dyeTintedColor(baseR, baseG, baseB, dyeR, dyeG, dyeB) ==
    LET L == luminance(baseR, baseG, baseB)
        shade == Q(35, 100) + Mul(Q(65, 100), L)
    IN  [r |-> clamp255(dyeR * shade),
         g |-> clamp255(dyeG * shade),
         b |-> clamp255(dyeB * shade)]

\* a store into out.data, a Uint8ClampedArray (lines 416-418): the nearest
\* byte, a tie going to the even one
Uint8Clamped(x) ==
    LET q == x \div ONE
        f == x % ONE
        n == IF 2 * f > ONE \/ (2 * f = ONE /\ q % 2 = 1) THEN q + 1 ELSE q
    IN  Max(0, Min(255, n))

\* line 411
Mix(intensity, m) == clamp01(Mul(intensity, m))

\* a blend with the two weights exchanged
BlendSwapped(c, dyed, mix) == Uint8Clamped(clamp255(c * mix + Mul(dyed, ONE - mix)))

\* one of the lines 416-418
Blend(c, dyed, mix) == Uint8Clamped(clamp255(c * (ONE - mix) + Mul(dyed, mix)))

\* a pass that writes every pixel opaque
DyePixelOpaque(p, dye, intensity, m) ==
    LET mix == Mix(intensity, m)
        dyed == dyeTintedColor(p.r, p.g, p.b, dye.r, dye.g, dye.b)
    IN  [r |-> Blend(p.r, dyed.r, mix),
         g |-> Blend(p.g, dyed.g, mix),
         b |-> Blend(p.b, dyed.b, mix),
         a |-> 255]

\* the body of the pixel loop after the mask (lines 406-419)
DyePixel(p, dye, intensity, m) ==
    LET mix == Mix(intensity, m)
        dyed == dyeTintedColor(p.r, p.g, p.b, dye.r, dye.g, dye.b)
    IN  [r |-> Blend(p.r, dyed.r, mix),
         g |-> Blend(p.g, dyed.g, mix),
         b |-> Blend(p.b, dyed.b, mix),
         a |-> p.a]

\* line 514: the intensity of the render, from the slider's percentage
Intensity(intensityPct) == clamp01(Q(intensityPct, 100))

\* the inputs of the tint model: base pixels with channels on MaxLevels
\* evenly spaced levels, three dyes (#ff0000, the default #8b1cf5 of line
\* 508, and a grey), mask values the techniques return, slider positions
MaxLevels == 4
MaxRenders == 3
Levels == {(255 * i) \div (MaxLevels - 1) : i \in 0..(MaxLevels - 1)}
BasePixels == {[r |-> r, g |-> g, b |-> b, a |-> 255] : r \in Levels, g \in Levels, b \in Levels}
Dyes == {RgbOfNumber(255 * 65536), RgbOfNumber(139 * 65536 + 28 * 256 + 245),
         RgbOfNumber(100 * 65536 + 100 * 256 + 100)}
MaskValues == {0, Q(6, 100), Q(35, 100), Q(85, 100), ONE}
IntensityPcts == {0, 25, 65, 100}
Channels == {"r", "g", "b"}

Tinted(p, dye, m, pct, n) ==
    [at |-> "drawn", base |-> p, dye |-> dye, m |-> m, pct |-> pct, renders |-> n,
     dyed |-> dyeTintedColor(p.r, p.g, p.b, dye.r, dye.g, dye.b),
     out |-> DyePixel(p, dye, Intensity(pct), m)]

\* the intensity slider (setIntensityPct); PreviewCanvas renders again
SetIntensityPct ==
    /\ tint.at = "drawn"
    /\ tint.renders < MaxRenders
    /\ \E pct \in IntensityPcts \ {tint.pct} :
          tint' = Tinted(tint.base, tint.dye, tint.m, pct, tint.renders + 1)
    /\ UNCHANGED <<cropVars, cover, mask, pass, hex, page, softPass, noise>>

\* the colour input (setDyeHex); PreviewCanvas renders again
SetDyeHex ==
    /\ tint.at = "drawn"
    /\ tint.renders < MaxRenders
    /\ \E dye \in Dyes \ {tint.dye} :
          tint' = Tinted(tint.base, dye, tint.m, tint.pct, tint.renders + 1)
    /\ UNCHANGED <<cropVars, cover, mask, pass, hex, page, softPass, noise>>

InitTint ==
    /\ CropIdle
    /\ cover = Idle /\ mask = Idle /\ pass = Idle /\ hex = Idle /\ page = Idle /\ softPass = Idle /\ noise = Idle
    /\ \E p \in BasePixels, dye \in Dyes, m \in MaskValues, pct \in IntensityPcts :
          tint = Tinted(p, dye, m, pct, 1)

NextTint == SetIntensityPct \/ SetDyeHex

SpecTint == InitTint /\ [][NextTint]_vars

-----------------------------------------------------------------------------
(* The bandhani dots of layout.tsx: the one branch of maskForTech in which *)
(* layout.tsx differs from part_000.                                       *)

RECURSIVE Or16(_, _)
Or16(a, b) ==
    IF a = 0 THEN b
    ELSE IF b = 0 THEN a
    ELSE 2 * Or16(a \div 2, b \div 2) + (IF a % 2 = 1 \/ b % 2 = 1 THEN 1 ELSE 0)

\* a | b
Or32(a, b) == <<Or16(a[1], b[1]), Or16(a[2], b[2])>>

\* 0x6d2b79f5 (layout.tsx:93)
MulberryStep == <<27947, 31221>>

\* lines 94-96 of mulberry32 for a counter t: the word that is divided by 2^32
mulberryFirst(t) == Mul32(Xor32(t, Shr32(t, 15)), Or32(<<0, 1>>, t))
mulberrySecond(r) == Xor32(r, Add32(r, Mul32(Xor32(r, Shr32(r, 7)), Or32(<<0, 61>>, r))))
mulberryThird(r) == Xor32(r, Shr32(r, 14))
mulberryWord(t) == mulberryThird(mulberrySecond(mulberryFirst(t)))

\* the n-th number (n = 1, 2, ...) of the generator mulberry32(seed) returns
\* (layout.tsx:90-98)
RECURSIVE mulberry32(_, _)
mulberry32(seed, n) ==
    IF n = 1 THEN UnitOf(mulberryWord(Add32(seed, MulberryStep)))
    ELSE mulberry32(Add32(seed, MulberryStep), n - 1)

\* layout.tsx:218-220
bandhaniCentreLayout(gx, gy, cell, seed) ==
    LET s == bandhaniSeed(gx, gy, seed)
    IN  [cx |-> Mul(gx * ONE + Q(5, 10), cell) + Mul(Mul(mulberry32(s, 1) - Q(5, 10), cell), Q(35, 100)),
         cy |-> Mul(gy * ONE + Q(5, 10), cell) + Mul(Mul(mulberry32(s, 2) - Q(5, 10), cell), Q(35, 100))]

\* layout.tsx:214-230
bandhaniDotsLayout(x, y, scale, seed, fabricGrain) ==
    LET cell == bandhaniCell(scale)
        gx == Floor(Div(x * ONE, cell))
        gy == Floor(Div(y * ONE, cell))
        c == bandhaniCentreLayout(gx, gy, cell, seed)
        d == HypotPx(x * ONE - c.cx, y * ONE - c.cy)
        r0 == Mul(cell, Q(11, 100))
        halo == Mul(cell, Q(19, 100))
    IN  IF d < r0 THEN Q(6, 100)
        ELSE IF d < halo THEN Q(35, 100)
        ELSE clamp01(Mul(ONE, fabricGrain))

\* maskForTech of layout.tsx (lines 168-334)
maskForTechLayout(tech, x, y, w, h, scale, seed) ==
    IF tech = "bandhaniDots"
    THEN bandhaniDotsLayout(x, y, scale, seed,
                            FabricGrain(Fiber(x, y, w, h, scale, seed), Fiber2(x, y, w, h, scale, seed)))
    ELSE maskForTech(tech, x, y, w, h, scale, seed)

-----------------------------------------------------------------------------
(* maskForTech asked for one pixel of a canvas.                            *)

\* the canvas of the mask model (the wrapper of PreviewCanvas is 16/10,
\* part_000:494), the scales maskForTech is called with: the ends and the
\* default of the scale slider (part_000:587-589) and a positive scale
\* below the slider's range, and seeds of the seed slider (part_000:617-619)
CanvasW == 16
CanvasH == 10
Scales == {Q(1, 10), Q(3, 10), ONE, Q(22, 10)}
Seeds == {1, 2026}
Builds == {"part_000", "layout"}

\* the seed PreviewCanvas hands to applyDyeingEffect (part_000:484)
techSeed(seed, tech) ==
    LET length == [t \in Tech |-> CASE t \in {"ombre"} -> 5
                                    [] t \in {"dipDye"} -> 6
                                    [] t \in {"leheriya", "ikatWarp", "ikatWeft", "spaceDye"} -> 8
                                    [] t \in {"shiboriNui"} -> 10
                                    [] t \in {"shiboriKumo", "batikFloral"} -> 11
                                    [] t \in {"tieDyeSpiral", "bandhaniDots", "batikCrackle"} -> 12
                                    [] t \in {"shiboriArashi", "shiboriKanoko"} -> 13
                                    [] OTHER -> 14]
    IN  seed + length[tech] * 991

maskOf(build, tech, x, y, w, h, scale, seed) ==
    IF build = "layout" THEN maskForTechLayout(tech, x, y, w, h, scale, seed)
    ELSE maskForTech(tech, x, y, w, h, scale, seed)

\* applyDyeingEffect reaches line 410 for the pixel (x, y)
MaskPixel ==
    /\ mask.at = "asked"
    /\ mask' = [mask EXCEPT !.at = "given",
                            !.branch = BranchTaken(mask.tech),
                            !.value = maskOf(mask.build, mask.tech, mask.x, mask.y,
                                             CanvasW, CanvasH, mask.scale,
                                             techSeed(mask.seed, mask.tech))]
    /\ UNCHANGED <<cropVars, cover, tint, pass, hex, page, softPass, noise>>

\* the loop goes on to the next pixel (line 404)
MaskNextPixel ==
    /\ mask.at = "given"
    /\ mask.y * CanvasW + mask.x + 1 < CanvasW * CanvasH
    /\ LET i == mask.y * CanvasW + mask.x + 1
       IN  mask' = [mask EXCEPT !.at = "asked", !.x = i % CanvasW, !.y = i \div CanvasW,
                                !.branch = 0, !.value = 0]
    /\ UNCHANGED <<cropVars, cover, tint, pass, hex, page, softPass, noise>>

InitMask ==
    /\ CropIdle
    /\ cover = Idle /\ tint = Idle /\ pass = Idle /\ hex = Idle /\ page = Idle /\ softPass = Idle /\ noise = Idle
    /\ \E build \in Builds, tech \in Tech, scale \in Scales, seed \in Seeds :
          mask = [at |-> "asked", build |-> build, tech |-> tech, x |-> 0, y |-> 0,
                  scale |-> scale, seed |-> seed, branch |-> 0, value |-> 0]

NextMask == MaskPixel \/ MaskNextPixel

SpecMask == InitMask /\ [][NextMask]_vars

-----------------------------------------------------------------------------
(* The older applyDyeingEffect of src/app/page.tsx: six techniques, masks  *)
(* that are closures of the call, one of them (tieMask) drawing from the   *)
(* generator rand the call creates at line 78.                             *)

\* a >>> 17
Shr17(a) == <<0, a[1] \div 2>>

\* lines 48-50 of seededRand: the state after one more call
seededRandNext(s) ==
    LET s1 == Xor32(s, Shl32(s, 13))
        s2 == Xor32(s1, Shr17(s1))
    IN  Xor32(s2, Shl32(s2, 5))

\* line 51: ((s >>> 0) % 10000) / 10000
seededRandValue(s) == (((s[1] % 10000) * (W16 % 10000) + s[2]) % 10000) \div 10

\* line 81
ombreMask(y, h) == Div(y * ONE, (h - 1) * ONE)

\* lines 83-100, for the state s of rand at the call; rand is called twice
tieMask(x, y, scale, s) ==
    LET cell == Max(18 * ONE, Mul(80 * ONE, Div(ONE, Max(Q(2, 10), scale))))
        gx == Floor(Div(x * ONE, cell))
        gy == Floor(Div(y * ONE, cell))
        sa == seededRandNext(s)
        sb == seededRandNext(sa)
        cx == Mul(gx * ONE + Q(5, 10), cell) + Mul(Mul(seededRandValue(sa) - Q(5, 10), cell), Q(2, 10))
        cy == Mul(gy * ONE + Q(5, 10), cell) + Mul(Mul(seededRandValue(sb) - Q(5, 10), cell), Q(2, 10))
        r == Mul(cell, Q(18, 100))
        d == HypotPx(x * ONE - cx, y * ONE - cy)
        dot == IF d < r THEN Q(5, 100) ELSE ONE
        ripple == Q(9, 10) + Mul(Q(1, 10), Sin(Div((x + y) * ONE, Mul(cell, Q(6, 10)))))
    IN  [m |-> Mul(dot, ripple), s |-> sb, gx |-> gx, gy |-> gy, cx |-> cx, cy |-> cy]

\* lines 102-110
itajimeMask(x, y, scale) ==
    LET cell == Max(24 * ONE, Mul(120 * ONE, Div(ONE, Max(Q(2, 10), scale))))
        u == Div((x * ONE) % cell, cell)
        v == Div((y * ONE) % cell, cell)
        tri == Min(Min(u, v), Min(ONE - u, ONE - v)) * 4
    IN  IF tri > Q(5, 10) THEN ONE ELSE Q(2, 10)

\* lines 112-120
arashiMask(x, y, scale) ==
    LET freq == Max(Q(2, 100), Mul(Q(9, 100), scale))
        t == x * freq + Mul(y * freq, Q(6, 10))
        stripe == (Sin(t) + ONE) \div 2
    IN  IF stripe > Q(55, 100) THEN ONE ELSE Q(25, 100)

\* lines 122-129
batikMask(x, y, scale) ==
    LET n1 == Sin(Mul(x * Q(6, 100), scale) + Mul(y * Q(2, 100), scale))
        n2 == Sin(Mul(x * Q(3, 100), scale) - Mul(y * Q(7, 100), scale))
        n == (n1 + n2) \div 2
    IN  IF Abs(n) > Q(85, 100) THEN Q(12, 100) ELSE ONE

\* lines 131-139
ikatMask(x, y, scale) ==
    LET cell == Max(22 * ONE, Mul(90 * ONE, Div(ONE, Max(Q(2, 10), scale))))
        a == (Sin(Div(x * ONE, Mul(cell, Q(45, 100)))) + ONE) \div 2
        b == (Sin(Div(y * ONE, Mul(cell, Q(5, 10)))) + ONE) \div 2
    IN  Q(4, 10) + Mul(Q(6, 10), Mul(a, Q(6, 10)) + Mul(b, Q(4, 10)))

\* page.tsx:13-20
PageTechs == {"ombre", "tieDye", "shiboriItajime", "shiboriArashi", "batik", "ikat"}

\* lines 151-158: the mask of the pixel and the state rand is left in
pageMask(tech, x, y, h, scale, s) ==
    CASE tech = "ombre" -> [m |-> ombreMask(y, h), s |-> s]
      [] tech = "tieDye" -> tieMask(x, y, scale, s)
      [] tech = "shiboriItajime" -> [m |-> itajimeMask(x, y, scale), s |-> s]
      [] tech = "shiboriArashi" -> [m |-> arashiMask(x, y, scale), s |-> s]
      [] tech = "batik" -> [m |-> batikMask(x, y, scale), s |-> s]
      [] tech = "ikat" -> [m |-> ikatMask(x, y, scale), s |-> s]
      [] OTHER -> [m |-> ONE, s |-> s]

\* lines 161-166: the dye itself is mixed in, and intensity * m is not clamped
pageDyePixel(p, dye, intensity, m) ==
    LET mix == Mul(intensity, m)
    IN  [r |-> Uint8Clamped(clamp255(p.r * (ONE - mix) + dye.r * mix)),
         g |-> Uint8Clamped(clamp255(p.g * (ONE - mix) + dye.g * mix)),
         b |-> Uint8Clamped(clamp255(p.b * (ONE - mix) + dye.b * mix)),
         a |-> p.a]

\* page.tsx:222, the seed PreviewCanvas hands to applyDyeingEffect
pageSeed(tech) ==
    LET length == [t \in PageTechs |-> CASE t = "ombre" -> 5
                                         [] t = "tieDye" -> 6
                                         [] t = "shiboriItajime" -> 14
                                         [] t = "shiboriArashi" -> 13
                                         [] t = "batik" -> 5
                                         [] OTHER -> 4]
    IN  length[tech] * 991 + 2026

-----------------------------------------------------------------------------
(* The per-pixel pass of applyDyeingEffect (part_000:404-422,              *)
(* layout.tsx:361-379, page.tsx:142-167) over a white canvas, one pixel a  *)
(* step.  The code visits the pixels in row-major order; the other orders  *)
(* are those of a reversed loop and of two workers sharing the loop.       *)

\* the canvas of part_000 and layout.tsx, and the corner of the 360 x 220
\* canvas of page.tsx (page.tsx:206-207) the pass is followed on
PassW == 4
PassH == 4
PageSide == 16

Orders == {"rowMajor", "reversed", "twoWorkers"}

\* the index of the pixel evaluated as the k-th (k = 0, 1, ...) of n
OrderIndex(order, k, n) ==
    CASE order = "rowMajor" -> k
      [] order = "reversed" -> n - 1 - k
      [] OTHER -> IF k % 2 = 0 THEN k \div 2 ELSE (n + 1) \div 2 + k \div 2

NoPixel == [r |-> -1, g |-> -1, b |-> -1, a |-> -1]
\* the pixel the source bitmap is filled with: white, opaque or half
\* transparent
SourcePixels == {White, [White EXCEPT !.a = 128]}
Red == RgbOfNumber(255 * 65536)

\* one iteration of the loop, for the pixel of index i and the state s of
\* the generator of page.tsx: the pixel written and the state left
EvalPixel(p, i, s) ==
    LET x == i % p.w
        y == i \div p.w
    IN  IF p.build = "page"
        THEN LET r == pageMask(p.tech, x, y, p.h, p.scale, s)
             IN  [px |-> pageDyePixel(p.base, Red, Q(p.pct, 100), r.m), s |-> r.s]
        ELSE [px |-> DyePixel(p.base, Red, Intensity(p.pct),
                              maskOf(p.build, p.tech, x, y, p.w, p.h, p.scale, p.seed)),
              s |-> s]

\* the grid cell of the pixel of index i and the dot centre the dotted
\* technique computes for it (part_000:268-276, layout.tsx:216-220,
\* page.tsx:86-90, there with the state s of rand), NoCentre for the other
\* techniques
NoCentre == [gx |-> -1, gy |-> -1, cx |-> 0, cy |-> 0]

DotCentre(p, i, s) ==
    LET x == i % p.w
        y == i \div p.w
        gx == Floor(Div(x * ONE, bandhaniCell(p.scale)))
        gy == Floor(Div(y * ONE, bandhaniCell(p.scale)))
    IN  CASE p.build = "page" /\ p.tech = "tieDye" ->
                LET r == tieMask(x, y, p.scale, s)
                IN  [gx |-> r.gx, gy |-> r.gy, cx |-> r.cx, cy |-> r.cy]
          [] p.build = "part_000" /\ p.tech = "bandhaniDots" ->
                [gx |-> gx, gy |-> gy] @@ bandhaniCentre(gx, gy, bandhaniCell(p.scale), p.seed)
          [] p.build = "layout" /\ p.tech = "bandhaniDots" ->
                [gx |-> gx, gy |-> gy] @@ bandhaniCentreLayout(gx, gy, bandhaniCell(p.scale), p.seed)
          [] OTHER -> NoCentre

\* the call of applyDyeingEffect up to the loop: rand is created (page.tsx:78)
StartPass(build, tech, order, w, h, scale, seed, pct) ==
    [at |-> "running", build |-> build, tech |-> tech, order |-> order, w |-> w, h |-> h,
     scale |-> scale, seed |-> seed, pct |-> pct, k |-> 0, base |-> White,
     s |-> IF build = "page" THEN Word(seed) ELSE <<0, 0>>,
     out |-> [i \in 0..(w * h - 1) |-> NoPixel],
     centre |-> [i \in 0..(w * h - 1) |-> NoCentre]]

\* the whole loop in a given order, from its k-th step on
RECURSIVE RunPass(_, _, _, _, _)
RunPass(p, order, k, s, out) ==
    IF k = p.w * p.h THEN out
    ELSE LET i == OrderIndex(order, k, p.w * p.h)
             e == EvalPixel(p, i, s)
         IN  RunPass(p, order, k + 1, e.s, [out EXCEPT ![i] = e.px])

PassPixel ==
    /\ pass.at = "running"
    /\ pass.k < pass.w * pass.h
    /\ LET i == OrderIndex(pass.order, pass.k, pass.w * pass.h)
           e == EvalPixel(pass, i, pass.s)
       IN  pass' = [pass EXCEPT !.k = pass.k + 1, !.s = e.s, !.out[i] = e.px,
                                !.centre[i] = DotCentre(pass, i, pass.s)]
    /\ UNCHANGED <<cropVars, cover, tint, mask, hex, page, softPass, noise>>

\* ctx.putImageData(out, 0, 0) (part_000:424, page.tsx:169)
PassDone ==
    /\ pass.at = "running"
    /\ pass.k = pass.w * pass.h
    /\ pass' = [pass EXCEPT !.at = "done"]
    /\ UNCHANGED <<cropVars, cover, tint, mask, hex, page, softPass, noise>>

InitPass ==
    /\ CropIdle
    /\ cover = Idle /\ tint = Idle /\ mask = Idle /\ hex = Idle /\ page = Idle /\ softPass = Idle /\ noise = Idle
    /\ \E base \in SourcePixels :
          \/ \E build \in Builds, tech \in Tech, order \in Orders, pct \in {65, 100} :
                pass = [StartPass(build, tech, order, PassW, PassH, ONE,
                                  techSeed(2026, tech), pct) EXCEPT !.base = base]
          \/ \E tech \in PageTechs, order \in Orders, scale \in {Q(8, 10), 2 * ONE},
                pct \in {65, 100} :
                pass = [StartPass("page", tech, order, PageSide, PageSide, scale,
                                  pageSeed(tech), pct) EXCEPT !.base = base]

NextPass == PassPixel \/ PassDone

SpecPass == InitPass /\ [][NextPass]_vars

-----------------------------------------------------------------------------
(* Claims about autocropImage.                                             *)

\* the rectangle the erosion ended with (lines 156-157)
ErodedW == Max(1, right - left + 1)
ErodedH == Max(1, bottom - top + 1)

\* C3: autocrop returns either the original image unchanged or a crop whose
\* width and height are each at least 25% of the original's; whenever the
\* eroded rectangle is below 25% of the original in width or in height the
\* crop is discarded and the original image is returned.
C3_GuardKeepsQuarter ==
    pc = "done" =>
        /\ result.kind \in {"original", "cropped"}
        /\ result.kind = "original" => result.img = img
        /\ result.kind = "cropped" =>
              /\ result.img.w = ErodedW /\ result.img.h = ErodedH
              /\ 4 * result.img.w >= img.w
              /\ 4 * result.img.h >= img.h
        /\ (4 * ErodedW < img.w \/ 4 * ErodedH < img.h) => result.kind = "original"

\* C3 witness: the erosion ended below a quarter of the width and the guard
\* returned the original image.
C3_Witness ==
    /\ pc = "done"
    /\ 4 * ErodedW < img.w
    /\ ErodedW < img.w
    /\ result.kind = "original"

\* An edge row or column is uniform border when every sampled pixel on it is
\* transparent (alpha <= 10) or within the tolerance of the average edge
\* colour of the image.
EdgeAverage(image) == SumSamples(EdgeSamples(image, SampleStep(image.w, image.h)))

PixelIsBorder(image, tol, x, y) ==
    LET p == getPixel(image, x, y)
    IN  p.a <= 10 \/ ~colorDistExceeds(p, EdgeAverage(image), tol)

RowIsUniform(image, tol, y) ==
    \A x \in Sampled(image.w, SampleStep(image.w, image.h)) : PixelIsBorder(image, tol, x, y)

ColIsUniform(image, tol, x) ==
    \A y \in Sampled(image.h, SampleStep(image.w, image.h)) : PixelIsBorder(image, tol, x, y)

NoUniformBorder(image, tol) ==
    /\ image.w >= 1 /\ image.h >= 1
    /\ ~RowIsUniform(image, tol, 0)
    /\ ~RowIsUniform(image, tol, image.h - 1)
    /\ ~ColIsUniform(image, tol, 0)
    /\ ~ColIsUniform(image, tol, image.w - 1)

Unchanged ==
    /\ result.kind \in {"original", "cropped"}
    /\ result.img = img
    /\ top = 0 /\ left = 0 /\ bottom = img.h - 1 /\ right = img.w - 1

\* C4 as stated: autocrop applied to an image that has no uniform border, in
\* particular to the result of a previous autocrop with the same tolerance,
\* returns it unchanged: the image returned is the image given.
C4_IdempotentAsStated ==
    (pc = "done" /\ (runs >= 2 \/ NoUniformBorder(img, tolerance))) =>
        (result.kind \in {"original", "cropped"} /\ result.img = img)

\* C4 amended: autocrop applied to an image none of whose four edge rows and
\* columns is uniform border returns it unchanged (top = 0, left = 0,
\* bottom = h-1, right = w-1); the result of a previous autocrop need not be
\* such an image.
C4_NoBorderUnchanged ==
    (pc = "done" /\ NoUniformBorder(img, tolerance)) => Unchanged

\* C4 witness: a second autocrop, of a cropped image that has no uniform
\* border, has returned it unchanged.
C4_Witness ==
    /\ pc = "done"
    /\ runs = 2
    /\ NoUniformBorder(img, tolerance)
    /\ img.w >= 2 /\ img.h >= 2
    /\ result.kind = "cropped"
    /\ result.img = img

\* C8: autocrop never ends in an error: for every input image and tolerance
\* (single-colour, fully transparent, 1x1, one-pixel-wide and zero-sized
\* images included) its outcome is the original image or a non-empty
\* sub-rectangle of it, never a thrown exception or a rejected promise.
C8_NeverErrors ==
    /\ pc # "rejected"
    /\ result.kind # "error"
    /\ result.kind = "cropped" =>
          /\ result.img.w >= 1 /\ result.img.h >= 1
          /\ left + result.img.w <= img.w /\ top + result.img.h <= img.h
          /\ result.img = CropOf(img, left, top, result.img.w, result.img.h)

\* the image has a uniform opaque frame of thickness k
HasFrame(image, k) ==
    /\ k >= 1 /\ 2 * k < image.w /\ 2 * k < image.h
    /\ getPixel(image, 0, 0).a = 255
    /\ \A x \in 0..(image.w - 1), y \in 0..(image.h - 1) :
          (x < k \/ x >= image.w - k \/ y < k \/ y >= image.h - k)
              => getPixel(image, x, y) = getPixel(image, 0, 0)

\* Euclidean RGB distance of two pixels above tol
Farther(p, q, tol) ==
    (p.r - q.r) * (p.r - q.r) + (p.g - q.g) * (p.g - q.g) + (p.b - q.b) * (p.b - q.b)
        > tol * tol

\* the outermost rows and columns of the content inside a frame of thickness
\* k each hold a sampled pixel that is farther than tol from the frame colour
\* and, where needAlpha, has alpha > 10
ContentStandsOut(image, k, tol, needAlpha) ==
    LET st == SampleStep(image.w, image.h)
        c == getPixel(image, 0, 0)
        far(x, y) == /\ Farther(getPixel(image, x, y), c, tol)
                     /\ needAlpha => getPixel(image, x, y).a > 10
        xs == {x \in Sampled(image.w, st) : x >= k /\ x < image.w - k}
        ys == {y \in Sampled(image.h, st) : y >= k /\ y < image.h - k}
    IN  /\ \E x \in xs : far(x, k)
        /\ \E x \in xs : far(x, image.h - 1 - k)
        /\ \E y \in ys : far(k, y)
        /\ \E y \in ys : far(image.w - 1 - k, y)

ContentReturned(k) ==
    /\ result.kind = "cropped"
    /\ result.img = CropOf(img, k, k, img.w - 2 * k, img.h - 2 * k)

QuarterKept(image, k) ==
    /\ 4 * (image.w - 2 * k) >= image.w
    /\ 4 * (image.h - 2 * k) >= image.h

\* C9 as stated: for an image with a uniform opaque border of thickness k
\* around content whose outermost rows and columns each hold a sampled pixel
\* farther than the tolerance from the border colour, autocrop returns
\* exactly the content rectangle (w-2k) x (h-2k), provided it is at least 25%
\* of the original in both dimensions.
C9_ContentRectAsStated ==
    pc = "done" =>
        \A k \in 1..img.w :
            (HasFrame(img, k) /\ ContentStandsOut(img, k, tolerance, FALSE)
                /\ QuarterKept(img, k)) => ContentReturned(k)

\* C9 amended: the same, for content whose outermost rows and columns each
\* hold a sampled pixel with alpha > 10 that is farther than the tolerance
\* from the border colour (a pixel with alpha <= 10 counts as background
\* whatever its colour).
C9_ContentRect ==
    pc = "done" =>
        \A k \in 1..img.w :
            (HasFrame(img, k) /\ ContentStandsOut(img, k, tolerance, TRUE)
                /\ QuarterKept(img, k)) => ContentReturned(k)

\* C9 witness: a framed image whose content stands out was cropped to its
\* content rectangle.
C9_Witness ==
    /\ pc = "done"
    /\ \E k \in 1..img.w :
          /\ HasFrame(img, k)
          /\ ContentStandsOut(img, k, tolerance, TRUE)
          /\ QuarterKept(img, k)
          /\ img.w - 2 * k >= 2
          /\ ContentReturned(k)

-----------------------------------------------------------------------------
(* Claims about drawImageCover.                                            *)

\* C5: for every source size (iw, ih) and destination size (w, h) of
\* positive integers, the rectangle drawImageCover samples has the
\* destination's aspect ratio: sw * h = sh * w.
C5_CoverKeepsAspect ==
    cover.at = "drawn" =>
        RatEq(RatTimes(cover.rect.sw, cover.h), RatTimes(cover.rect.sh, cover.w))

\* C5 happens: a portrait source drawn onto a landscape canvas, sampled in
\* its full width and in a part of its height
C5_Witness ==
    /\ cover.at = "drawn"
    /\ cover.iw < cover.ih /\ cover.w > cover.h
    /\ RatEq(cover.rect.sw, <<cover.iw, 1>>)
    /\ ~RatEq(cover.rect.sh, <<cover.ih, 1>>)
    /\ RatEq(RatTimes(cover.rect.sw, cover.h), RatTimes(cover.rect.sh, cover.w))

-----------------------------------------------------------------------------
(* Claims about the tint and the blend.                                    *)

Dist(a, b) == Abs(a - b)
Between(x, a, b) == Min(a, b) <= x /\ x <= Max(a, b)

\* a render after the intensity slider went up, everything else the same
IntensityRaised ==
    /\ tint.at = "drawn" /\ tint'.at = "drawn"
    /\ tint'.base = tint.base /\ tint'.dye = tint.dye /\ tint'.m = tint.m
    /\ tint.m > 0
    /\ tint'.pct > tint.pct

\* C6 as stated: with the mask value m > 0 and the base and dye colours
\* fixed, raising the intensity moves every output channel toward the dye
\* channel, and at intensity 1 no channel has gone past the dye channel.
C6_TowardDyeAsStated ==
    [][IntensityRaised =>
        \A c \in Channels :
            /\ Dist(tint'.out[c], tint.dye[c]) <= Dist(tint.out[c], tint.dye[c])
            /\ tint'.pct = 100 => Between(tint'.out[c], tint.base[c], tint.dye[c])]_vars

\* C6: with the mask value m > 0 and the base and dye colours fixed,
\* raising the intensity moves every output channel, from the base channel,
\* toward the tinted channel dyeChannel * (0.35 + 0.65 L) of
\* dyeTintedColor (stored as a byte) and never back; no channel goes past
\* the tinted channel, and at intensity 1 and m = 1 the output is the
\* tinted colour.
C6_TowardTinted ==
    [][IntensityRaised =>
        \A c \in Channels :
            LET target == Uint8Clamped(tint.dyed[c])
            IN  /\ Between(tint.out[c], tint.base[c], target)
                /\ Between(tint'.out[c], tint.out[c], target)
                /\ (tint'.pct = 100 /\ tint.m = ONE) => tint'.out[c] = target]_vars

\* C6 happens: the slider was raised to 100 and the output, which was the
\* base, is now the tinted colour, whose red channel lies farther from the
\* dye's than the base's
C6_Witness ==
    /\ tint.at = "drawn" /\ tint.renders > 1
    /\ tint.pct = 100 /\ tint.m = ONE
    /\ tint.out.r = Uint8Clamped(tint.dyed.r)
    /\ tint.out.r < tint.base.r /\ tint.base.r < tint.dye.r

\* C7: for a fixed dye and two base pixels p, q with
\* luminance(p) < luminance(q), every channel of the tinted colour of p is
\* at most the same channel of the tinted colour of q.
C7_TintKeepsOrder ==
    tint.at = "drawn" =>
        \A q \in BasePixels :
            luminance(tint.base.r, tint.base.g, tint.base.b) < luminance(q.r, q.g, q.b) =>
                LET dq == dyeTintedColor(q.r, q.g, q.b, tint.dye.r, tint.dye.g, tint.dye.b)
                IN  \A c \in Channels : tint.dyed[c] <= dq[c]

\* C7 happens: the pixel is darker than white, and its tinted red channel is
\* strictly below white's
C7_Witness ==
    /\ tint.at = "drawn" /\ tint.renders > 1
    /\ luminance(tint.base.r, tint.base.g, tint.base.b) < luminance(255, 255, 255)
    /\ tint.dyed.r < dyeTintedColor(255, 255, 255, tint.dye.r, tint.dye.g, tint.dye.b).r

-----------------------------------------------------------------------------
(* Claims about maskForTech.                                               *)

\* C2: for every one of the 15 techniques, every pixel (x, y) of the
\* canvas, every scale and every seed, maskForTech returns a value in the
\* closed interval [0, 1].
C2_MaskInUnitInterval ==
    mask.at = "given" => (0 <= mask.value /\ mask.value <= ONE)

\* C2 happens: a pixel away from the origin got a mask strictly inside the
\* interval, from a technique whose strength is multiplied by the grain
C2_Witness ==
    /\ mask.at = "given"
    /\ mask.tech = "shiboriItajime"
    /\ mask.x > 0 /\ mask.y > 0
    /\ 0 < mask.value /\ mask.value < ONE

-----------------------------------------------------------------------------
(* Claims about the per-pixel pass.                                        *)

\* C1: for a fixed source bitmap and fixed render parameters the pass
\* writes the same bitmap whatever the order the pixels are evaluated in:
\* the finished pass equals the pass in row-major order.
C1_OrderIndependent ==
    pass.at = "done" =>
        pass.out = RunPass(pass, "rowMajor", 0, StartPass(pass.build, pass.tech, pass.order,
                                                          pass.w, pass.h, pass.scale,
                                                          pass.seed, pass.pct).s,
                           [i \in 0..(pass.w * pass.h - 1) |-> NoPixel])

\* the ombre scenario: 4 x 4 white canvas, technique ombre, intensity 1.0,
\* dye #FF0000, in the build of part_000, the pass finished
OmbreScenario ==
    /\ pass.at = "done" /\ pass.base = White
    /\ pass.build = "part_000" /\ pass.tech = "ombre" /\ pass.pct = 100
    /\ pass.w = 4 /\ pass.h = 4

\* C10: in the ombre scenario every top-row pixel has mask 0 and output
\* equal to the base (255,255,255,255), and every bottom-row pixel has a
\* mask of at least the grain minimum 0.85, so that its output is red with
\* green and blue near 0 (at most 255 * 0.15, rounded up).
C10_OmbreScenario ==
    OmbreScenario =>
        \A x \in 0..(pass.w - 1) :
            /\ maskForTech("ombre", x, 0, pass.w, pass.h, pass.scale, pass.seed) = 0
            /\ pass.out[x] = White
            /\ maskForTech("ombre", x, pass.h - 1, pass.w, pass.h, pass.scale, pass.seed) >= Q(85, 100)
            /\ LET px == pass.out[(pass.h - 1) * pass.w + x]
               IN  px.r = 255 /\ px.g <= 39 /\ px.b <= 39 /\ px.a = 255

-----------------------------------------------------------------------------
(* Claims about the technique identifiers.                                 *)

\* C11: TECHS lists exactly 15 pairwise-distinct keys, each with a
\* non-empty label, and the set of its keys is the set of the tags
\* maskForTech has a branch for: no key TECHS hands to a canvas reaches the
\* grain-only return at the end of the chain.
C11_ClosedEnumeration ==
    /\ Len(TECHS) = 15
    /\ \A i, j \in 1..Len(TECHS) : i # j => TECHS[i].key # TECHS[j].key
    /\ \A i \in 1..Len(TECHS) : TECHS[i].label # ""
    /\ Tech = {Branches[i] : i \in 1..Len(Branches)}
    /\ mask.at = "given" =>
          /\ mask.tech \in Tech
          /\ mask.branch \in 1..Len(Branches)
          /\ Branches[mask.branch] = mask.tech

\* C11 happens: the last key of TECHS was asked for a pixel away from the
\* origin and the last test of the chain answered
C11_Witness ==
    /\ mask.at = "given"
    /\ mask.tech = TECHS[Len(TECHS)].key
    /\ mask.branch = Len(Branches)
    /\ mask.x > 0 /\ mask.y > 0

-----------------------------------------------------------------------------
(* hexToRgb (part_000:64-69).  A string is the sequence of its characters. *)

\* the longest string, in characters, among the freely chosen inputs
MaxHexLen == 4

DecimalDigits == <<"0", "1", "2", "3", "4", "5", "6", "7", "8", "9">>
LowerLetters == <<"a", "b", "c", "d", "e", "f", "g", "x">>
UpperLetters == <<"A", "B", "C", "D", "E", "F", "G", "X">>

\* the position of a character in a sequence of characters, 0 when absent
IndexIn(c, chars) ==
    IF \E i \in 1..Len(chars) : chars[i] = c
    THEN CHOOSE i \in 1..Len(chars) : chars[i] = c
    ELSE 0

\* the value parseInt gives a character in radix 16, -1 when it is no digit
HexValue(c) ==
    CASE IndexIn(c, DecimalDigits) > 0 -> IndexIn(c, DecimalDigits) - 1
      [] IndexIn(c, LowerLetters) \in 1..6 -> 9 + IndexIn(c, LowerLetters)
      [] IndexIn(c, UpperLetters) \in 1..6 -> 9 + IndexIn(c, UpperLetters)
      [] OTHER -> -1

\* String.prototype.toUpperCase and toLowerCase
toUpperCase(s) ==
    [i \in 1..Len(s) |-> IF IndexIn(s[i], LowerLetters) > 0
                         THEN UpperLetters[IndexIn(s[i], LowerLetters)] ELSE s[i]]
toLowerCase(s) ==
    [i \in 1..Len(s) |-> IF IndexIn(s[i], UpperLetters) > 0
                         THEN LowerLetters[IndexIn(s[i], UpperLetters)] ELSE s[i]]

\* hex.replace("#", ""): the first "#" of the string is removed (line 65)
replaceHash(s) ==
    IF \E i \in 1..Len(s) : s[i] = "#"
    THEN LET i == CHOOSE i \in 1..Len(s) : s[i] = "#" /\ \A j \in 1..(i - 1) : s[j] # "#"
         IN  SubSeq(s, 1, i - 1) \o SubSeq(s, i + 1, Len(s))
    ELSE s

\* String.prototype.trim (line 65): the white space of both ends goes
RECURSIVE trimStart(_)
trimStart(s) == IF s # <<>> /\ Head(s) = " " THEN trimStart(Tail(s)) ELSE s

RECURSIVE trimEnd(_)
trimEnd(s) ==
    IF s # <<>> /\ s[Len(s)] = " " THEN trimEnd(SubSeq(s, 1, Len(s) - 1)) ELSE s

trim(s) == trimEnd(trimStart(s))

\* a string that is never expanded
fullAsIs(v) == v

\* line 66: a string of three characters has every character doubled
full(v) == IF Len(v) = 3 THEN <<v[1], v[1], v[2], v[2], v[3], v[3]>> ELSE v

\* the value of the longest prefix of hex digits of s, after the digits
\* read so far gave acc; none is TRUE as long as no digit was read
RECURSIVE parseDigits(_, _, _)
parseDigits(s, acc, none) ==
    IF s = <<>> \/ HexValue(Head(s)) < 0
    THEN [NaN |-> none, n |-> acc]
    ELSE parseDigits(Tail(s), 16 * acc + HexValue(Head(s)), FALSE)

\* parseInt(s, 16) (line 67): leading white space, a sign and a prefix 0x or
\* 0X are skipped, the digits are read up to the first character that is
\* none, and the result is NaN when there is no digit
parseInt16(s) ==
    LET t == trimStart(s)
        negative == t # <<>> /\ Head(t) = "-"
        u == IF t # <<>> /\ Head(t) \in {"-", "+"} THEN Tail(t) ELSE t
        d == IF Len(u) >= 2 /\ u[1] = "0" /\ u[2] \in {"x", "X"}
             THEN SubSeq(u, 3, Len(u)) ELSE u
        p == parseDigits(d, 0, TRUE)
    IN  [NaN |-> p.NaN, n |-> IF negative THEN -p.n ELSE p.n]

\* lines 64-69; n >> 16 of NaN is 0
hexToRgb(s) ==
    LET n == parseInt16(full(trim(replaceHash(s))))
    IN  [kind |-> "rgb"] @@ RgbOfNumber(IF n.NaN THEN 0 ELSE n.n)

\* the strings hexToRgb is given: every string of at most MaxHexLen
\* characters of HexAlphabet, and the six-digit forms, with and without "#",
\* over the digits of SixDigits
HexAlphabet == {"#", "0", "9", "a", "F", "g", " ", "-", "x"}
SixDigits == {"0", "a", "F"}
HexInputs ==
    UNION {[1..n -> HexAlphabet] : n \in 0..MaxHexLen}
    \cup [1..6 -> SixDigits]
    \cup {<<"#">> \o d : d \in [1..6 -> SixDigits]}

\* the other spellings of a colour string: in capitals, in small letters,
\* without its first "#", with a leading "#" when it has none, with every
\* digit doubled
Respellings(s) ==
    {toUpperCase(s), toLowerCase(s), replaceHash(s)}
    \cup (IF \A i \in 1..Len(s) : s[i] # "#" THEN {<<"#">> \o s} ELSE {})
    \cup (IF Len(s) = 3 THEN {<<s[1], s[1], s[2], s[2], s[3], s[3]>>} ELSE {})
    \cup (IF Len(s) = 4 /\ s[1] = "#"
          THEN {<<"#", s[2], s[2], s[3], s[3], s[4], s[4]>>} ELSE {})

\* applyDyeingEffect parses the dye colour of the render (line 402)
HexToRgb ==
    /\ hex.at = "asked"
    /\ hex' = [hex EXCEPT !.at = "returned", !.rgb = hexToRgb(hex.text)]
    /\ UNCHANGED <<cropVars, cover, tint, mask, pass, page, softPass, noise>>

\* the next render is given the colour in another spelling
HexRespell ==
    /\ hex.at = "returned"
    /\ \E s \in Respellings(hex.text) \ {hex.text} :
          hex' = [at |-> "asked", text |-> s, rgb |-> [kind |-> "none"]]
    /\ UNCHANGED <<cropVars, cover, tint, mask, pass, page, softPass, noise>>

InitHex ==
    /\ CropIdle
    /\ cover = Idle /\ tint = Idle /\ mask = Idle /\ pass = Idle /\ page = Idle /\ softPass = Idle /\ noise = Idle
    /\ \E s \in HexInputs : hex = [at |-> "asked", text |-> s, rgb |-> [kind |-> "none"]]

NextHex == HexToRgb \/ HexRespell

SpecHex == InitHex /\ [][NextHex]_vars

-----------------------------------------------------------------------------
(* Claims about hexToRgb.                                                  *)

\* the digits of a colour string: the string without its leading "#"
DigitsOf(s) == IF s # <<>> /\ Head(s) = "#" THEN Tail(s) ELSE s

\* a well-formed colour string: #RGB or #RRGGBB, the "#" optional, the
\* digits in either case
WellFormed(s) ==
    /\ Len(DigitsOf(s)) \in {3, 6}
    /\ \A i \in 1..Len(DigitsOf(s)) : HexValue(DigitsOf(s)[i]) >= 0

\* the RGB triple the digits of a well-formed string denote
Denoted(s) ==
    LET d == DigitsOf(s)
        v(i) == HexValue(d[i])
    IN  IF Len(d) = 3
        THEN [r |-> 16 * v(1) + v(1), g |-> 16 * v(2) + v(2), b |-> 16 * v(3) + v(3)]
        ELSE [r |-> 16 * v(1) + v(2), g |-> 16 * v(3) + v(4), b |-> 16 * v(5) + v(6)]

\* C12: for every well-formed colour string hexToRgb returns the RGB triple
\* its hex digits denote, every channel in 0..255, and returns the same
\* triple for the string without or with the leading "#", in capitals or
\* small letters, and for the 3-digit form as for the 6-digit form that
\* doubles each digit.
C12_HexDenotes ==
    (hex.at = "returned" /\ WellFormed(hex.text)) =>
        /\ hex.rgb.kind = "rgb"
        /\ \A c \in {"r", "g", "b"} :
              hex.rgb[c] = Denoted(hex.text)[c] /\ hex.rgb[c] \in 0..255
        /\ \A t \in Respellings(hex.text) : hexToRgb(t) = hex.rgb

\* C12 happens: a 3-digit colour with "#", in mixed case, came back as the
\* triple of the doubled digits
C12_Witness ==
    /\ hex.at = "returned"
    /\ hex.text = <<"#", "a", "F", "9">>
    /\ hex.rgb = [kind |-> "rgb", r |-> 170, g |-> 255, b |-> 153]
    /\ hexToRgb(<<"A", "A", "F", "F", "9", "9">>) = hex.rgb

\* C13: hexToRgb applied to a malformed colour string (one with a
\* character that is no hex digit, or not of 3 or 6 hex digits) ends in an
\* InvalidColorFormat error and returns no RGB triple.
C13_MalformedRejected ==
    (hex.at = "returned" /\ ~WellFormed(hex.text)) =>
        hex.rgb.kind = "InvalidColorFormat"

-----------------------------------------------------------------------------
(* Claims about the alpha channel.                                         *)

\* C14: for every pixel, technique, intensity and mask value the alpha of
\* the output pixel is the alpha of the base pixel: the pass changes the R,
\* G and B channels only.
C14_AlphaPassesThrough ==
    \A i \in DOMAIN pass.out :
        pass.out[i] # NoPixel =>
            /\ pass.out[i].a = pass.base.a
            /\ \A c \in Channels : pass.out[i][c] \in 0..255

\* C14 happens: a pass over a half transparent bitmap has finished; the
\* green channel of its last pixel changed and its alpha did not
C14_Witness ==
    /\ pass.at = "done" /\ pass.build = "part_000"
    /\ pass.base.a = 128
    /\ pass.out[pass.w * pass.h - 1].a = 128
    /\ pass.out[pass.w * pass.h - 1].g < 255

-----------------------------------------------------------------------------
(* Claims about the clamping of scale and intensity.                       *)

\* the scale a branch that clamps works with: Math.max(0.25, scale), as in
\* the cell sizes of part_000:267 and 298
ClampedScale(scale) == Max(Q(25, 100), scale)

\* C15: scale and intensity are always clamped before use: the blend factor
\* comes from an intensity in [0, 1], and every branch of maskForTech uses
\* the scale only through its clamped value, never the raw scale of the
\* caller, so that the mask of a scale is the mask of the clamped scale.
C15_ClampedBeforeUse ==
    /\ \A pct \in IntensityPcts : 0 <= Intensity(pct) /\ Intensity(pct) <= ONE
    /\ mask.at = "given" =>
          mask.value = maskOf(mask.build, mask.tech, mask.x, mask.y, CanvasW, CanvasH,
                              ClampedScale(mask.scale), techSeed(mask.seed, mask.tech))

-----------------------------------------------------------------------------
(* Page (part_000:502-685): the upload handler, an async function with two *)
(* awaits, and the effect of PreviewCanvas that draws the canvas.  An       *)
(* upload is known by its number, in the order the files were chosen; a    *)
(* render parameter (dye, intensity, scale, softness, seed) by the number  *)
(* of changes made to the controls.                                        *)

\* how many files are chosen, how many times a control is moved
MaxUploads == 3
MaxChanges == 2

NoCanvas == [img |-> 0, params |-> 0]

\* the uploads whose handler has not finished
InFlight == {k \in DOMAIN page.req : page.req[k] \in {"loading", "cropping"}}

\* the effect of PreviewCanvas has still to draw: its dependencies changed
\* (line 490) after the canvas was drawn
RenderPending == page.img # 0 /\ page.canvas # [img |-> page.img, params |-> page.params]

\* line 532-536: a file is chosen and loadImageFromFile starts; the handler
\* keeps the autoCrop of the render it was created in
ChooseFile ==
    /\ page.at = "shown"
    /\ page.next < MaxUploads
    /\ page' = [page EXCEPT !.next = page.next + 1,
                            !.req = page.req @@ ((page.next + 1) :>  "loading"),
                            !.crop = page.crop @@ ((page.next + 1) :> page.autoCrop)]
    /\ UNCHANGED <<cropVars, cover, tint, mask, pass, hex, softPass, noise>>

\* lines 536-538: the image of upload k has loaded; without auto-crop it is
\* handed to setImg, with auto-crop autocropImage starts
LoadResolves ==
    /\ page.at = "shown"
    /\ \E k \in DOMAIN page.req :
          /\ page.req[k] = "loading"
          /\ IF page.crop[k]
             THEN page' = [page EXCEPT !.req[k] = "cropping"]
             ELSE page' = [page EXCEPT !.req[k] = "set", !.img = k]
    /\ UNCHANGED <<cropVars, cover, tint, mask, pass, hex, softPass, noise>>

\* lines 59 and 174: the image does not load, or autocropImage rejects; the
\* handler ends without setImg
UploadRejects ==
    /\ page.at = "shown"
    /\ \E k \in InFlight : page' = [page EXCEPT !.req[k] = "failed"]
    /\ UNCHANGED <<cropVars, cover, tint, mask, pass, hex, softPass, noise>>

\* lines 537-538: autocropImage has resolved for upload k; setImg(finalImg)
CropResolves ==
    /\ page.at = "shown"
    /\ \E k \in DOMAIN page.req :
          /\ page.req[k] = "cropping"
          /\ page' = [page EXCEPT !.req[k] = "set", !.img = k]
    /\ UNCHANGED <<cropVars, cover, tint, mask, pass, hex, softPass, noise>>

\* lines 627-633: the auto-crop checkbox
SetAutoCrop ==
    /\ page.at = "shown"
    /\ page' = [page EXCEPT !.autoCrop = ~page.autoCrop]
    /\ UNCHANGED <<cropVars, cover, tint, mask, pass, hex, softPass, noise>>

\* lines 555-624: a control of the render is moved
SetControl ==
    /\ page.at = "shown"
    /\ page.params < 1 + MaxChanges
    /\ page' = [page EXCEPT !.params = page.params + 1]
    /\ UNCHANGED <<cropVars, cover, tint, mask, pass, hex, softPass, noise>>

\* lines 458-490: the effect runs again: the old observer is disconnected,
\* the new one calls applyDyeingEffect, which draws the image and the
\* parameters of this render in one synchronous call
RenderCanvas ==
    /\ page.at = "shown"
    /\ RenderPending
    /\ page' = [page EXCEPT !.canvas = [img |-> page.img, params |-> page.params]]
    /\ UNCHANGED <<cropVars, cover, tint, mask, pass, hex, softPass, noise>>

\* lines 503-512: no image, auto-crop on
InitPage ==
    /\ CropIdle
    /\ cover = Idle /\ tint = Idle /\ mask = Idle /\ pass = Idle /\ hex = Idle /\ softPass = Idle /\ noise = Idle
    /\ page = [at |-> "shown", img |-> 0, next |-> 0, req |-> <<>>, crop |-> <<>>,
               autoCrop |-> TRUE, params |-> 1, canvas |-> NoCanvas]

NextPage ==
    \/ ChooseFile
    \/ LoadResolves
    \/ UploadRejects
    \/ CropResolves
    \/ SetAutoCrop
    \/ SetControl
    \/ RenderCanvas

SpecPage == InitPage /\ [][NextPage]_vars

-----------------------------------------------------------------------------
(* Claims about superseded requests.                                       *)

\* C16: a request triggered while an earlier one is in flight supersedes
\* it: once all the work in flight has completed, the image and the canvas
\* shown are those of the most recently triggered request that gave a
\* result, never those of an older one that finished later.
C16_LatestRequestWins ==
    (page.at = "shown" /\ InFlight = {} /\ ~RenderPending) =>
        /\ \A k \in DOMAIN page.req : page.req[k] = "set" => page.img >= k
        /\ page.img # 0 => page.canvas = [img |-> page.img, params |-> page.params]

-----------------------------------------------------------------------------
(* Claims about the dots.                                                  *)

\* C17: in the dotted technique the jittered dot centre used for a pixel
\* depends only on (cellX, cellY, seed): within one render any two pixels of
\* the same grid cell use the same dot centre, whatever the order the
\* pixels are evaluated in and however many were evaluated before.
C17_CentrePerCell ==
    pass.at = "done" =>
        \A i, j \in DOMAIN pass.centre :
            (pass.centre[i].gx = pass.centre[j].gx /\ pass.centre[i].gy = pass.centre[j].gy)
                => pass.centre[i] = pass.centre[j]

-----------------------------------------------------------------------------
(* The four erosion loops of autocropImage (part_000:151-154) as four      *)
(* processes: the loops start together after line 133 and their steps are  *)
(* taken in any order.  The order of the code (top, bottom, left, right,   *)
(* each loop run to its end) is one of the interleavings.                  *)

\* line 151 (and 153): the loop that moves the lower boundary lo up while it
\* is below hi and its row (column) is background; isBg[y] is rowIsBg(y)
RECURSIVE ErodeFrom(_, _, _)
ErodeFrom(isBg, lo, hi) ==
    IF lo < hi /\ isBg[lo] THEN ErodeFrom(isBg, lo + 1, hi) ELSE lo

\* line 152 (and 154): the loop that moves the upper boundary hi down
RECURSIVE ErodeBack(_, _, _)
ErodeBack(isBg, lo, hi) ==
    IF hi > lo /\ isBg[hi] THEN ErodeBack(isBg, lo, hi - 1) ELSE hi

\* lines 130-154 in the order of the code: the rectangle the erosion ends at
CodedRect(image, tol) ==
    LET st == SampleStep(image.w, image.h)
        est == SumSamples(EdgeSamples(image, st))
        rows == [y \in 0..(image.h - 1) |-> rowIsBg(image, st, est, tol, y)]
        cols == [x \in 0..(image.w - 1) |-> colIsBg(image, st, est, tol, x)]
        t == ErodeFrom(rows, 0, image.h - 1)
        l == ErodeFrom(cols, 0, image.w - 1)
    IN  [top |-> t, bottom |-> ErodeBack(rows, t, image.h - 1),
         left |-> l, right |-> ErodeBack(cols, l, image.w - 1)]

\* one iteration of the loop of line 151
TopStep ==
    /\ pc = "erode"
    /\ top < bottom /\ rowIsBg(img, step, bg, tolerance, top)
    /\ top' = top + 1
    /\ UNCHANGED <<img, tolerance, pc, step, bg, bottom, left, right, result, runs>>
    /\ UNCHANGED <<cover, tint, mask, pass, hex, page, softPass, noise>>

\* a loop of line 152 that tests the row of the other boundary
BottomStepOnTop ==
    /\ pc = "erode"
    /\ bottom > top /\ rowIsBg(img, step, bg, tolerance, top)
    /\ bottom' = bottom - 1
    /\ UNCHANGED <<img, tolerance, pc, step, bg, top, left, right, result, runs>>
    /\ UNCHANGED <<cover, tint, mask, pass, hex, page, softPass, noise>>

\* one iteration of the loop of line 152
BottomStep ==
    /\ pc = "erode"
    /\ bottom > top /\ rowIsBg(img, step, bg, tolerance, bottom)
    /\ bottom' = bottom - 1
    /\ UNCHANGED <<img, tolerance, pc, step, bg, top, left, right, result, runs>>
    /\ UNCHANGED <<cover, tint, mask, pass, hex, page, softPass, noise>>

\* one iteration of the loop of line 153
LeftStep ==
    /\ pc = "erode"
    /\ left < right /\ colIsBg(img, step, bg, tolerance, left)
    /\ left' = left + 1
    /\ UNCHANGED <<img, tolerance, pc, step, bg, top, bottom, right, result, runs>>
    /\ UNCHANGED <<cover, tint, mask, pass, hex, page, softPass, noise>>

\* one iteration of the loop of line 154
RightStep ==
    /\ pc = "erode"
    /\ right > left /\ colIsBg(img, step, bg, tolerance, right)
    /\ right' = right - 1
    /\ UNCHANGED <<img, tolerance, pc, step, bg, top, bottom, left, result, runs>>
    /\ UNCHANGED <<cover, tint, mask, pass, hex, page, softPass, noise>>

\* the four loops have ended: the condition of each is false, and stays
\* false, since a boundary only moves toward the opposite one
ErosionEnds ==
    /\ pc = "erode"
    /\ ~(top < bottom /\ rowIsBg(img, step, bg, tolerance, top))
    /\ ~(bottom > top /\ rowIsBg(img, step, bg, tolerance, bottom))
    /\ ~(left < right /\ colIsBg(img, step, bg, tolerance, left))
    /\ ~(right > left /\ colIsBg(img, step, bg, tolerance, right))
    /\ pc' = "eroded"
    /\ UNCHANGED <<img, tolerance, step, bg, top, bottom, left, right, result, runs>>
    /\ UNCHANGED <<cover, tint, mask, pass, hex, page, softPass, noise>>

\* the state after lines 94-133 for an image that is not empty
InitErode ==
    /\ img \in InputImages(FreeSizes) \ EmptyImages
    /\ tolerance \in Tolerances
    /\ pc = "erode"
    /\ step = SampleStep(img.w, img.h)
    /\ bg = SumSamples(EdgeSamples(img, SampleStep(img.w, img.h)))
    /\ top = 0 /\ bottom = img.h - 1 /\ left = 0 /\ right = img.w - 1
    /\ result = NoResult
    /\ runs = 1
    /\ cover = Idle /\ tint = Idle /\ mask = Idle /\ pass = Idle /\ hex = Idle /\ page = Idle /\ softPass = Idle /\ noise = Idle

NextErode == TopStep \/ BottomStep \/ LeftStep \/ RightStep \/ ErosionEnds

SpecErode == InitErode /\ [][NextErode]_vars

-----------------------------------------------------------------------------
(* Claims about the order of the erosions.                                 *)

\* some row (column) of the image is not background
SomeContentRow == \E y \in 0..(img.h - 1) : ~rowIsBg(img, step, bg, tolerance, y)
SomeContentCol == \E x \in 0..(img.w - 1) : ~colIsBg(img, step, bg, tolerance, x)

\* C18 as stated: the four erosions are mutually independent: for every
\* image and tolerance the final rectangle (top, bottom, left, right) is the
\* same for every order or interleaving of their steps, the rectangle of
\* the coded order top, bottom, left, right.
C18_AnyOrderAsStated ==
    pc = "eroded" =>
        [top |-> top, bottom |-> bottom, left |-> left, right |-> right]
            = CodedRect(img, tolerance)

\* C18 amended: the erosion of the rows and the erosion of the columns are
\* independent of each other, and in every order of the steps top and
\* bottom (left and right) end where the coded order ends them when some
\* row (column) is not background; when every row (column) is background
\* the two boundaries meet, at a row (column) the order decides.
C18_AnyOrderWithContent ==
    pc = "eroded" =>
        /\ SomeContentRow =>
              top = CodedRect(img, tolerance).top /\ bottom = CodedRect(img, tolerance).bottom
        /\ ~SomeContentRow => top = bottom
        /\ SomeContentCol =>
              left = CodedRect(img, tolerance).left /\ right = CodedRect(img, tolerance).right
        /\ ~SomeContentCol => left = right

\* C18 happens: rows were eroded from both sides of the content and a
\* column from the left, and the erosion ended at the rectangle of the
\* coded order
C18_Witness ==
    /\ pc = "eroded"
    /\ SomeContentRow /\ SomeContentCol
    /\ top > 0 /\ bottom < img.h - 1 /\ left > 0
    /\ [top |-> top, bottom |-> bottom, left |-> left, right |-> right]
           = CodedRect(img, tolerance)

-----------------------------------------------------------------------------
(* Claims about all-background images and about the classification of     *)
(* rows and columns in autocropImage.                                      *)

\* every pixel of the image is one opaque colour
SingleColour(image) ==
    /\ image.w >= 1 /\ image.h >= 1
    /\ getPixel(image, 0, 0).a = 255
    /\ \A i \in DOMAIN image.px : image.px[i] = getPixel(image, 0, 0)

\* C19: for an image in which every pixel is background (a single opaque
\* colour), autocrop returns the original image unchanged, for every image
\* size w, h >= 1.
C19_AllBackgroundKept ==
    (pc = "done" /\ SingleColour(img)) => result.img = img

\* a sampled pixel that matches the background: within the tolerance of the
\* estimate and, as the text has it, with alpha > 10; as the loops have it,
\* within the tolerance or with alpha <= 10
MatchesBg(p, asStated) ==
    LET within == ~colorDistExceeds(p, bg, tolerance)
    IN  IF asStated THEN p.a > 10 /\ within ELSE p.a <= 10 \/ within

RowMatches(y, asStated) ==
    \A x \in Sampled(img.w, step) : MatchesBg(getPixel(img, x, y), asStated)

ColMatches(x, asStated) ==
    \A y \in Sampled(img.h, step) : MatchesBg(getPixel(img, x, y), asStated)

\* the rows and columns the erosion has passed are the background ones, and
\* a boundary that stopped short of the opposite one stopped on a row or
\* column that is not background
ErodedAsClassified(asStated) ==
    pc \in {"top", "bottom", "left", "right", "guard", "done"} =>
        /\ \A y \in 0..(top - 1) : RowMatches(y, asStated)
        /\ \A y \in (bottom + 1)..(img.h - 1) : RowMatches(y, asStated)
        /\ \A x \in 0..(left - 1) : ColMatches(x, asStated)
        /\ \A x \in (right + 1)..(img.w - 1) : ColMatches(x, asStated)
        /\ (pc # "top" /\ top < bottom) => ~RowMatches(top, asStated)
        /\ (pc \notin {"top", "bottom"} /\ top < bottom)
              => ~RowMatches(bottom, asStated)
        /\ (pc \in {"right", "guard", "done"} /\ left < right)
              => ~ColMatches(left, asStated)
        /\ (pc \in {"guard", "done"} /\ left < right)
              => ~ColMatches(right, asStated)

\* C20 as stated: a row or column is classified as background if and only if
\* every sampled pixel on it has both alpha > 10 and a distance to the
\* background estimate within the tolerance, so that a sampled pixel with
\* alpha <= 10 stops the erosion of its boundary.
C20_ClassifiedAsStated == ErodedAsClassified(TRUE)

\* C20 amended: a row or column is classified as background if and only if
\* every sampled pixel on it has alpha <= 10 or a distance to the background
\* estimate within the tolerance; a sampled pixel with alpha <= 10 never
\* stops the erosion of its boundary.
C20_Classified == ErodedAsClassified(FALSE)

\* C20 happens: the erosion passed a top row that holds a sampled pixel with
\* alpha <= 10 whose colour is farther than the tolerance from the estimate,
\* and stopped on a row with an opaque pixel that is farther
C20_Witness ==
    /\ pc = "done"
    /\ top >= 1
    /\ \E x \in Sampled(img.w, step) :
          /\ getPixel(img, x, 0).a <= 10
          /\ colorDistExceeds(getPixel(img, x, 0), bg, tolerance)
    /\ \E x \in Sampled(img.w, step) :
          /\ getPixel(img, x, top).a > 10
          /\ colorDistExceeds(getPixel(img, x, top), bg, tolerance)

-----------------------------------------------------------------------------
(* Claims about the boundaries of the erosion.                             *)

\* the erosion has started: the boundaries hold values of this run
Eroding == pc \in {"top", "bottom", "left", "right", "guard", "done"}

\* the boundaries are ordered and inside the image, every loop that has
\* finished stopped on a row or column that is not background or on the
\* opposite boundary, and the rectangle they span is not empty
BoundariesInside ==
    Eroding =>
        /\ img.w >= 1 /\ img.h >= 1
        /\ 0 <= top /\ top <= bottom /\ bottom <= img.h - 1
        /\ 0 <= left /\ left <= right /\ right <= img.w - 1
        /\ pc # "top" =>
              (top = bottom \/ ~rowIsBg(img, step, bg, tolerance, top))
        /\ pc \notin {"top", "bottom"} =>
              (top = bottom \/ ~rowIsBg(img, step, bg, tolerance, bottom))
        /\ pc \in {"right", "guard", "done"} =>
              (left = right \/ ~colIsBg(img, step, bg, tolerance, left))
        /\ pc \in {"guard", "done"} =>
              (left = right \/ ~colIsBg(img, step, bg, tolerance, right))
        /\ right - left + 1 >= 1 /\ bottom - top + 1 >= 1

\* a step of the erosion moves no boundary outward, and moves a boundary by
\* one row or column at most
MovesInward ==
    (Eroding /\ Eroding') =>
        /\ top' \in {top, top + 1}
        /\ bottom' \in {bottom, bottom - 1}
        /\ left' \in {left, left + 1}
        /\ right' \in {right, right - 1}

\* C21: throughout the erosion of an image with w, h >= 1 the boundaries
\* satisfy 0 <= top <= bottom <= h-1 and 0 <= left <= right <= w-1, each
\* boundary only ever moves inward, and each stops at the first row or column
\* that is not background or when it meets the opposite boundary, so the
\* crop rectangle is never empty and lies inside the source.
C21_BoundariesMoveInward == [](BoundariesInside) /\ [][MovesInward]_vars

\* C21 happens: all four boundaries have moved and the erosion has ended
\* with a rectangle that is not empty
C21_Witness ==
    /\ pc = "done"
    /\ top >= 1 /\ bottom <= img.h - 2 /\ left >= 1 /\ right <= img.w - 2
    /\ top <= bottom /\ left <= right

-----------------------------------------------------------------------------
(* Claims about the rectangle drawImageCover samples.                      *)

\* a + b for two rationals
RatPlus(a, b) == <<a[1] * b[2] + b[1] * a[2], a[2] * b[2]>>

\* the rectangle lies inside a source of iw x ih
InsideSource(rect, iw, ih) ==
    /\ RatLeq(<<0, 1>>, rect.sx)
    /\ RatLeq(<<0, 1>>, rect.sy)
    /\ RatLeq(RatPlus(rect.sx, rect.sw), <<iw, 1>>)
    /\ RatLeq(RatPlus(rect.sy, rect.sh), <<ih, 1>>)

\* the margins on opposite sides are equal: sx = iw - (sx + sw), and the
\* same for sy
Centred(rect, iw, ih) ==
    /\ RatEq(RatPlus(RatPlus(rect.sx, rect.sx), rect.sw), <<iw, 1>>)
    /\ RatEq(RatPlus(RatPlus(rect.sy, rect.sy), rect.sh), <<ih, 1>>)

\* C22: for every source size (iw, ih) and destination size (w, h) of
\* positive integers, the rectangle drawImageCover samples lies inside the
\* source, is centred in it, and spans the full extent of the source in at
\* least one axis (sw = iw or sh = ih).
C22_CoverInsideCentred ==
    cover.at = "drawn" =>
        /\ InsideSource(cover.rect, cover.iw, cover.ih)
        /\ Centred(cover.rect, cover.iw, cover.ih)
        /\ \/ RatEq(cover.rect.sw, <<cover.iw, 1>>)
           \/ RatEq(cover.rect.sh, <<cover.ih, 1>>)

\* C22 happens: a landscape source drawn onto a portrait canvas, sampled in
\* its full height and with equal margins, not zero, left and right
C22_Witness ==
    /\ cover.at = "drawn"
    /\ cover.iw > cover.ih /\ cover.w < cover.h
    /\ RatEq(cover.rect.sh, <<cover.ih, 1>>)
    /\ ~RatLeq(cover.rect.sx, <<0, 1>>)
    /\ RatEq(cover.rect.sy, <<0, 1>>)

-----------------------------------------------------------------------------
(* Claims about the range of the tinted colour.                            *)

\* 0.35 + 0.65 * L for the base pixel of the tint
ShadeOfBase ==
    Q(35, 100) + Mul(Q(65, 100), luminance(tint.base.r, tint.base.g, tint.base.b))

\* C23: for all base and dye colours with channels in 0..255, each tinted
\* channel equals dyeChannel * (0.35 + 0.65 * L) with L the luminance of the
\* base in [0, 1]; it lies between 0.35 * dyeChannel and dyeChannel, and the
\* clamp to [0, 255] does not change it.
C23_TintedInRange ==
    tint.at = "drawn" =>
        /\ 0 <= luminance(tint.base.r, tint.base.g, tint.base.b)
        /\ luminance(tint.base.r, tint.base.g, tint.base.b) <= ONE
        /\ \A c \in Channels :
              /\ tint.dyed[c] = tint.dye[c] * ShadeOfBase
              /\ Q(35, 100) * tint.dye[c] <= tint.dyed[c]
              /\ tint.dyed[c] <= tint.dye[c] * ONE
              /\ clamp255(tint.dye[c] * ShadeOfBase) = tint.dye[c] * ShadeOfBase

\* C23 happens: a white base under a dye with a full channel, where the
\* tinted channel reaches the dye channel, 255
C23_Witness ==
    /\ tint.at = "drawn"
    /\ tint.base.r = 255 /\ tint.base.g = 255 /\ tint.base.b = 255
    /\ \E c \in Channels : tint.dye[c] = 255 /\ tint.dyed[c] = 255 * ONE

-----------------------------------------------------------------------------
(* Claims about the fabric grain.                                          *)

\* what maskForTech returns for the pixel of the mask model when the
\* fabric grain of line 240 is g instead of the grain of the pixel
MaskUnderGrain(g) ==
    LET seed == techSeed(mask.seed, mask.tech)
    IN  IF mask.build = "layout" /\ mask.tech = "bandhaniDots"
        THEN bandhaniDotsLayout(mask.x, mask.y, mask.scale, seed, g)
        ELSE maskBranch(mask.tech, mask.x, mask.y,
                        NormX(mask.x, CanvasW), NormY(mask.y, CanvasH),
                        mask.scale, seed,
                        Fiber(mask.x, mask.y, CanvasW, CanvasH, mask.scale, seed),
                        Fiber2(mask.x, mask.y, CanvasW, CanvasH, mask.scale, seed), g)

\* C24: the fabric grain is applied identically in all techniques: for
\* every technique and every pixel the value maskForTech returns is the
\* strength of the technique multiplied by fabricGrain, then clamped, and no
\* return path skips the grain; a grain of 0 in place of fabricGrain
\* therefore gives the mask 0 at every pixel.
C24_GrainInEveryReturn ==
    mask.at = "given" => MaskUnderGrain(0) = 0

-----------------------------------------------------------------------------
(* The softness pass of applyDyeingEffect (part_000:426-434, the same in   *)
(* layout.tsx:384-392; the blur pass of page.tsx:172-179).  The canvas is  *)
(* known by the draws made onto it since putImageData: a draw is the shift *)
(* of its destination rectangle and the opacity it was made with.          *)

\* the largest whole softness the pass is called with (the slider of
\* part_000:602-604 ends at 8)
MaxSoftness == 9

\* whole values from 0 on, a negative value and two values between whole ones
Softnesses ==
    {i * ONE : i \in 0..MaxSoftness} \cup {0 - ONE, Q(1, 2), Q(5, 2)}

BleedBuilds == {"part_000", "layout", "page"}

\* ctx.globalAlpha of the pass: part_000:427, page.tsx:173
BleedAlpha(build) == IF build = "page" THEN Q(5, 10) ELSE Q(35, 100)

\* the loop goes on: k < steps with steps = Math.min(8, Math.floor(softness))
\* (part_000:428-429); k < Math.min(6, blur) (page.tsx:174)
BleedGoesOn(build, k, softness) ==
    IF build = "page"
    THEN k * ONE < Min(6 * ONE, softness)
    ELSE k < Min(8, Floor(softness))

\* a draw of the canvas onto itself: drawImage(ctx.canvas, 0.5, 0.5, w - 1,
\* h - 1) is the shift "plus", drawImage(ctx.canvas, -0.5, -0.5, w + 1,
\* h + 1) the shift "minus"
BleedDraw(shift, alpha) == [shift |-> shift, alpha |-> alpha]

\* line 426: if (softness > 0), then line 427
BleedBegin ==
    /\ softPass.at = "put"
    /\ IF softPass.softness > 0
       THEN softPass' = [softPass EXCEPT !.at = "loop", !.alpha = BleedAlpha(softPass.build)]
       ELSE softPass' = [softPass EXCEPT !.at = "done"]
    /\ UNCHANGED <<cropVars, cover, tint, mask, pass, hex, page, noise>>

\* lines 429-430: the test of the loop and the first draw
BleedFirstDraw ==
    /\ softPass.at = "loop"
    /\ BleedGoesOn(softPass.build, softPass.k, softPass.softness)
    /\ softPass' = [softPass EXCEPT !.at = "second",
                              !.draws = Append(@, BleedDraw("plus", softPass.alpha))]
    /\ UNCHANGED <<cropVars, cover, tint, mask, pass, hex, page, noise>>

\* line 431 and the k++ of line 429
BleedSecondDraw ==
    /\ softPass.at = "second"
    /\ softPass' = [softPass EXCEPT !.at = "loop", !.k = @ + 1,
                              !.draws = Append(@, BleedDraw("minus", softPass.alpha))]
    /\ UNCHANGED <<cropVars, cover, tint, mask, pass, hex, page, noise>>

\* the loop ends, then line 433: ctx.globalAlpha = 1
BleedEnd ==
    /\ softPass.at = "loop"
    /\ ~BleedGoesOn(softPass.build, softPass.k, softPass.softness)
    /\ softPass' = [softPass EXCEPT !.at = "done", !.alpha = ONE]
    /\ UNCHANGED <<cropVars, cover, tint, mask, pass, hex, page, noise>>

\* after putImageData (line 424): the opacity of a fresh context is 1
InitBleed ==
    /\ CropIdle
    /\ cover = Idle /\ tint = Idle /\ mask = Idle /\ pass = Idle
    /\ hex = Idle /\ page = Idle /\ noise = Idle
    /\ \E build \in BleedBuilds, softness \in Softnesses :
          softPass = [at |-> "put", build |-> build, softness |-> softness,
                   k |-> 0, alpha |-> ONE, draws |-> <<>>]

NextBleed == BleedBegin \/ BleedFirstDraw \/ BleedSecondDraw \/ BleedEnd

SpecBleed == InitBleed /\ [][NextBleed]_vars

-----------------------------------------------------------------------------
(* Claims about the softness pass.                                         *)

\* the draws of n iterations made in order: plus, minus, plus, minus, ...,
\* each at opacity 0.35
DrawsInOrder(n) ==
    [i \in 1..(2 * n) |->
        BleedDraw(IF i % 2 = 1 THEN "plus" ELSE "minus", Q(35, 100))]

\* min(8, floor(softness)) for a positive softness, 0 otherwise
StepsOf(softness) == IF softness > 0 THEN Min(8, Floor(softness)) ELSE 0

\* the draws made so far are the first draws of the pass, in order, and a
\* pass that has ended has made all of them and left the opacity at 1
BleedAsSpecified ==
    /\ Len(softPass.draws) <= 2 * StepsOf(softPass.softness)
    /\ softPass.draws = SubSeq(DrawsInOrder(StepsOf(softPass.softness)), 1, Len(softPass.draws))
    /\ softPass.at = "done" =>
          /\ softPass.draws = DrawsInOrder(StepsOf(softPass.softness))
          /\ softPass.alpha = ONE
          /\ softPass.softness < ONE => softPass.draws = <<>>

\* C25: the bleed pass performs exactly min(8, floor(softness)) iterations,
\* in order, each of two self-composites of the canvas (shifted +0.5px, then
\* -0.5px) at opacity 0.35, and restores the global opacity to 1 afterwards;
\* for softness <= 0 and for 0 < softness < 1 it makes no draw and leaves
\* the canvas unchanged.
C25_BleedAsSpecified == softPass.at # "idle" => BleedAsSpecified

-----------------------------------------------------------------------------
(* Claims about batikCrackle.                                              *)

\* the two noise samples of the pixel of the mask model, at 16 and 32 times
\* the scale
CrackleSamples ==
    LET nx == NormX(mask.x, CanvasW)
        ny == NormY(mask.y, CanvasH)
        seed == techSeed(mask.seed, mask.tech)
    IN  [n1 |-> valueNoise2D(Mul(nx * 16, mask.scale), Mul(ny * 16, mask.scale),
                             Word(seed + 123)),
         n2 |-> valueNoise2D(Mul(nx * 32, mask.scale), Mul(ny * 32, mask.scale),
                             Word(seed + 321))]

\* the fabric grain of the pixel of the mask model
GrainOfPixel ==
    LET seed == techSeed(mask.seed, mask.tech)
    IN  FabricGrain(Fiber(mask.x, mask.y, CanvasW, CanvasH, mask.scale, seed),
                    Fiber2(mask.x, mask.y, CanvasW, CanvasH, mask.scale, seed))

\* 0.15 times the grain when the field n is in the band |n - 0.5| < 0.04,
\* 1.0 times the grain otherwise
CrackleOfField(n) ==
    clamp01(Mul(IF Abs(n - Q(5, 10)) < Q(4, 100) THEN Q(15, 100) ELSE ONE,
                GrainOfPixel))

\* C26 as stated: batikCrackle computes its field n as the difference of
\* two noise samples taken at 16x and 32x scale and returns 0.15 times the
\* grain exactly when |n - 0.5| < 0.04, and 1.0 times the grain otherwise.
C26_CrackleOfDifference ==
    (mask.at = "given" /\ mask.tech = "batikCrackle") =>
        mask.value = CrackleOfField(CrackleSamples.n1 - CrackleSamples.n2)

\* C26 amended: batikCrackle computes its field n as the weighted sum
\* 0.6 * n1 + 0.4 * n2 of two noise samples taken at 16x and 32x scale and
\* returns 0.15 times the grain exactly when |n - 0.5| < 0.04, and 1.0 times
\* the grain otherwise.
C26_CrackleOfWeightedSum ==
    (mask.at = "given" /\ mask.tech = "batikCrackle") =>
        mask.value = CrackleOfField(Mul(Q(6, 10), CrackleSamples.n1)
                                    + Mul(Q(4, 10), CrackleSamples.n2))

\* C26 happens: a pixel away from the origin lies in the band of the
\* weighted sum and not in the band of the difference, and is resisted
C26_Witness ==
    /\ mask.at = "given" /\ mask.tech = "batikCrackle"
    /\ mask.x > 0 /\ mask.y > 0
    /\ Abs(Mul(Q(6, 10), CrackleSamples.n1) + Mul(Q(4, 10), CrackleSamples.n2)
           - Q(5, 10)) < Q(4, 100)
    /\ Abs(CrackleSamples.n1 - CrackleSamples.n2 - Q(5, 10)) >= Q(4, 100)
    /\ mask.value = clamp01(Mul(Q(15, 100), GrainOfPixel))
    /\ mask.value < Q(2, 10)

-----------------------------------------------------------------------------
(* valueNoise2D (part_000:209-232) in exact arithmetic, at the points of a *)
(* grid of NoiseSteps points per lattice cell.  A coordinate is a whole    *)
(* number of steps; the weights u and v are fractions of NoiseSteps^3 and  *)
(* the value a fraction of NoiseSteps^6.                                   *)

\* points per lattice cell in each axis
NoiseSteps == 4
\* the lattice cells go from -MaxCell to MaxCell - 1
MaxCell == 1

NoiseCoords == (0 - MaxCell * NoiseSteps)..(MaxCell * NoiseSteps)
\* seeds valueNoise2D is called with: seed + 11 (line 238)
NoiseSeeds == {s + 11 : s \in Seeds}

\* lines 210-213: xi = Math.floor(x) and xf = x - xi, in steps
CellOf(p) == p \div NoiseSteps
OffsetOf(p) == p % NoiseSteps

\* lines 221-224 mirrored in y: the corners below the point
NoiseCornersBelow(xi, yi, seed) ==
    [c \in {0, 1} \X {0, 1} |-> hash(xi + c[1], yi - c[2], Word(seed))]

\* lines 221-224: v00, v10, v01, v11
NoiseCorners(xi, yi, seed) ==
    [c \in {0, 1} \X {0, 1} |-> hash(xi + c[1], yi + c[2], Word(seed))]

\* lines 226-227: xf * xf * (3 - 2 * xf) for xf = i / NoiseSteps, as a
\* fraction of NoiseSteps^3
SmoothExact(i) == i * i * (3 * NoiseSteps - 2 * i)
NoiseUnit == NoiseSteps * NoiseSteps * NoiseSteps

\* lines 229-231, as a fraction of NoiseUnit^2
BlendExact(c, u, v) ==
    (c[<<0, 0>>] * (NoiseUnit - u) + c[<<1, 0>>] * u) * (NoiseUnit - v)
    + (c[<<0, 1>>] * (NoiseUnit - u) + c[<<1, 1>>] * u) * v

\* the interpolant of the cell (xi, yi) at the offsets i, j, up to and
\* including the far edges of the cell (i = NoiseSteps, j = NoiseSteps)
CellValue(xi, yi, i, j, seed) ==
    BlendExact(NoiseCorners(xi, yi, seed), SmoothExact(i), SmoothExact(j))

\* valueNoise2D at the point (px, py)
valueNoiseExact(px, py, seed) ==
    CellValue(CellOf(px), CellOf(py), OffsetOf(px), OffsetOf(py), seed)

\* valueNoise2D is called
NoiseSample ==
    /\ noise.at = "asked"
    /\ noise' = [noise EXCEPT !.at = "given",
                              !.value = valueNoiseExact(noise.px, noise.py, noise.seed)]
    /\ UNCHANGED <<cropVars, cover, tint, mask, pass, hex, page, softPass>>

\* the next call is for the point one step to the right (the pixel loop of
\* applyDyeingEffect goes along x)
NoiseMoveX ==
    /\ noise.at = "given"
    /\ noise.px + 1 \in NoiseCoords
    /\ noise' = [noise EXCEPT !.at = "asked", !.px = @ + 1, !.value = 0]
    /\ UNCHANGED <<cropVars, cover, tint, mask, pass, hex, page, softPass>>

\* the next call is for the point one step up
NoiseMoveY ==
    /\ noise.at = "given"
    /\ noise.py + 1 \in NoiseCoords
    /\ noise' = [noise EXCEPT !.at = "asked", !.py = @ + 1, !.value = 0]
    /\ UNCHANGED <<cropVars, cover, tint, mask, pass, hex, page, softPass>>

InitNoise ==
    /\ CropIdle
    /\ cover = Idle /\ tint = Idle /\ mask = Idle /\ pass = Idle
    /\ hex = Idle /\ page = Idle /\ softPass = Idle
    /\ \E px \in NoiseCoords, py \in NoiseCoords, seed \in NoiseSeeds :
          noise = [at |-> "asked", px |-> px, py |-> py, seed |-> seed, value |-> 0]

NextNoise == NoiseSample \/ NoiseMoveX \/ NoiseMoveY

SpecNoise == InitNoise /\ [][NextNoise]_vars

-----------------------------------------------------------------------------
(* Claims about valueNoise2D.                                              *)

\* the least and the greatest of the four corner hashes
LeastCorner(c) == CHOOSE m \in {c[k] : k \in DOMAIN c} : \A k \in DOMAIN c : m <= c[k]
GreatestCorner(c) == CHOOSE m \in {c[k] : k \in DOMAIN c} : \A k \in DOMAIN c : m >= c[k]

\* C27: valueNoise2D is continuous across integer cell boundaries: at every
\* point of a lattice line the value obtained in the cell on one side with
\* the fractional offset at its limit 1 equals the value obtained in the
\* adjacent cell with offset 0; and the result always lies between the least
\* and the greatest of the four corner hashes, hence in [0, 1).
C27_NoiseContinuous ==
    noise.at = "given" =>
        LET xi == CellOf(noise.px)
            yi == CellOf(noise.py)
            i == OffsetOf(noise.px)
            j == OffsetOf(noise.py)
            c == NoiseCorners(xi, yi, noise.seed)
        IN  /\ LeastCorner(c) * NoiseUnit * NoiseUnit <= noise.value
            /\ noise.value <= GreatestCorner(c) * NoiseUnit * NoiseUnit
            /\ 0 <= noise.value
            /\ noise.value < ONE * NoiseUnit * NoiseUnit
            /\ i = 0 => noise.value = CellValue(xi - 1, yi, NoiseSteps, j, noise.seed)
            /\ j = 0 => noise.value = CellValue(xi, yi - 1, i, NoiseSteps, noise.seed)

\* C27 happens: a point on a vertical lattice line and off the horizontal
\* ones, whose value lies strictly between the corners and is the limit of
\* the cell to its left; and the same cell one step before its edge has
\* another value
C27_Witness ==
    /\ noise.at = "given"
    /\ OffsetOf(noise.px) = 0 /\ OffsetOf(noise.py) # 0
    /\ LET xi == CellOf(noise.px)
           yi == CellOf(noise.py)
           j == OffsetOf(noise.py)
           c == NoiseCorners(xi, yi, noise.seed)
       IN  /\ LeastCorner(c) * NoiseUnit * NoiseUnit < noise.value
           /\ noise.value < GreatestCorner(c) * NoiseUnit * NoiseUnit
           /\ noise.value = CellValue(xi - 1, yi, NoiseSteps, j, noise.seed)
           /\ noise.value # CellValue(xi - 1, yi, NoiseSteps - 1, j, noise.seed)

=============================================================================
